---- MODULE Spec2Model ----
(***************************************************************************)
(* Project H.I.V.E: the Log Collector (bus consumer -> indexer), the       *)
(* Honeypot Manager REST controller over the Honeypot model class, and the *)
(* Log-Infra router over ServiceOrchestrator / BaseContainerManager.       *)
(*                                                                         *)
(* The specifications of the module:                                       *)
(*   SpecLC     the log collector process (Logger_Subscriber.py)           *)
(*   SpecEnrich the log collector's handling of one document's fields      *)
(*   SpecBoot   the collector's main() from process start, and a publisher *)
(*   SpecHP     the honeypot manager API  (honeypot_manager_controller.py) *)
(*   SpecPorts  the honeypot manager API receiving any integer port        *)
(*   SpecLifecycle the lifecycle methods of Honeypot on any runtime answer *)
(*   SpecCatalog   HoneypotConfig.load_configs over a changing file        *)
(*   SpecInfra  the log-infra API         (log_manager_router.py)          *)
(*   SpecMgr    one caller driving the container managers directly         *)
(*   SpecEnsure one caller of the resource managers' ensure operations     *)
(*   SpecFaulty one caller of create() on a runtime whose invocations fail *)
(*   SpecStart  start requests, one at a time, on such a runtime           *)
(***************************************************************************)
EXTENDS Integers, Sequences, FiniteSets, TLC

VARIABLES
    \* ---- log collector -------------------------------------------------
    lcPayload,     \* message id -> payload published on honeypot.logs
    lcStream,      \* ids held by the work-queue stream (not yet acked)
    lcDeliveries,  \* id -> number of deliveries to the callback so far
    lcPc,          \* position of the single message_handler coroutine
    lcCur,         \* id of the message being handled (0: none)
    lcInsertRet,   \* value returned by insert_into_opensearch for lcCur
    lcIndex,       \* id -> number of documents of that message in hive-logs
    lcAcked,       \* ids the handler has acknowledged
    enPc,          \* message_handler's position on the document in hand
    enData,        \* data: the document decoded from the message in hand
    enIndexed,     \* the documents in hive-logs
    enSeen,        \* messages handed to message_handler so far
    \* ---- honeypot manager API -------------------------------------------
    hpEuid,        \* os.geteuid() of the API process
    hpContainers,  \* the container records held by the runtime
    hpImages,      \* the image tags present in the runtime
    hpEstablished, \* host ports with an ESTABLISHED inbound TCP session
    hpSlot,        \* request slot -> the request in flight and its response
    hpReqs,        \* requests submitted so far
    lfCall,        \* the last lifecycle method call whose runtime call was made
    lcBoot,        \* position of the collector's main() before it listens
    osRun,         \* the hive-logs index and what this run of main did to it
    jsStream,      \* configuration of the JetStream stream "honeypot"
    pubInit,       \* NATSJetstreamPublisher.initialized of one honeypot
    cfFile,        \* the catalog file: missing, or its mtime and contents
    cfCache,       \* HoneypotConfig._configs and _last_modified
    cfResult,      \* what the last load_configs() returned
    \* ---- log infrastructure ---------------------------------------------
    inCt,          \* infra container name -> its state in the runtime
    inRes,         \* networks, pods, volumes and images present
    inAlias,       \* containers connected to hive-net under an alias
    inSlot,        \* request slot -> the request in flight and its position
    inReqs,        \* requests sent to the log-infra API so far
    mgLast         \* the last manager method call that returned

lcVars == <<lcPayload, lcStream, lcDeliveries, lcPc, lcCur, lcInsertRet,
            lcIndex, lcAcked>>

hpVars == <<hpEuid, hpContainers, hpImages, hpEstablished, hpSlot, hpReqs>>

inVars == <<inCt, inRes, inAlias, inSlot, inReqs, mgLast>>

enVars == <<enPc, enData, enIndexed, enSeen>>

\* Calls followed one at a time, outside the three processes.
cfVars == <<cfFile, cfCache, cfResult>>

xtVars == <<lfCall, lcBoot, osRun, jsStream, pubInit, cfVars>>

vars == <<lcVars, enVars, hpVars, inVars, xtVars>>

\* What each process leaves alone.
notLC == <<enVars, hpVars, inVars, xtVars>>
notEN == <<lcVars, hpVars, inVars, xtVars>>
notHP == <<lcVars, enVars, inVars, xtVars>>
notIN == <<lcVars, enVars, hpVars, xtVars>>
notXT == <<lcVars, enVars, hpVars, inVars>>

(***************************************************************************)
(* Bounds                                                                  *)
(***************************************************************************)
MaxMsgs    == 3    \* messages published on the subject
MaxDeliver == 2    \* deliveries of one message (first delivery + redelivery)
MaxReqs    == 4    \* requests sent to the honeypot manager API
MaxInfraReqs == 3  \* requests sent to the log-infra API
MaxDocs    == 1    \* documents whose fields are followed through the handler
MaxPhrases == 2    \* phrases in the message of a runtime exception
MaxMtime   == 3    \* modification times of the catalog file

MsgIds == 1..MaxMsgs

(***************************************************************************)
(* LOG COLLECTOR                                                           *)
(***************************************************************************)

\* What a publisher can put on the subject: a JSON object (what
\* NATSJetstreamPublisher.publish sends: json.dumps(payload).encode()), or
\* bytes that json.loads rejects (the subject accepts any client's bytes).
Payloads == {"json", "garbage"}

\* json.loads(msg.data.decode()): TRUE iff decoding succeeds.
json_loads_ok(payload) == payload = "json"

\* The outcomes of client.index: success, or one of the exceptions caught by
\* insert_into_opensearch.
IndexOutcomes == {"ok", "ConnectionError", "AuthorizationException",
                  "RequestError"}

\* The collector process is started again (its container restarts) and main
\* runs setup_opensearch: an existing hive-logs index is deleted and created
\* anew, then the subscription is made again.  When the search node cannot be
\* reached setup_opensearch returns False and main returns.
setup_opensearch(o) ==
    /\ IF o = "ok"
         THEN /\ lcIndex' = [m \in MsgIds |-> 0]
              /\ lcPc' = "idle"
         ELSE /\ lcPc' = "down"
              /\ UNCHANGED lcIndex
    /\ lcCur' = 0
    /\ lcInsertRet' = FALSE
    /\ UNCHANGED <<lcPayload, lcStream, lcDeliveries, lcAcked>>
    /\ UNCHANGED notLC

(***************************************************************************)
(* The document: duration and geolocation (message_handler lines 76-99)    *)
(***************************************************************************)

\* Instants in milliseconds; the honeypots send isoformat() of a wall-clock
\* reading, which carries fractions of a second.
Instants == {0, 1500, 3000}

\* What data.get("time_of_entry") / data.get("time_of_exit") can be: absent
\* or empty, a string dateutil cannot parse, or an ISO timestamp.
NoTime == [k |-> "none", ms |-> 0]
BadTime == [k |-> "bad", ms |-> 0]
TimeFields == {NoTime, BadTime} \cup {[k |-> "iso", ms |-> t] : t \in Instants}

\* int(x) of Python for x = ms / 1000: the fraction is cut off towards zero.
int_total_seconds(ms) ==
    IF ms >= 0 THEN ms \div 1000 ELSE -((-ms) \div 1000)

\* Lines 79-91: the duration stored in data, has = FALSE when the key is not
\* set.
calculate_duration(entry, exit) ==
    IF entry.k = "none" \/ exit.k = "none"
      THEN [has |-> FALSE, v |-> 0]
    ELSE IF entry.k = "bad" \/ exit.k = "bad"
      THEN [has |-> TRUE, v |-> 0]                  \* except Exception
    ELSE [has |-> TRUE, v |-> int_total_seconds(exit.ms - entry.ms)]

\* A coordinate of the geo database's answer: a number of degrees, None, or
\* a float that compares false with everything (nan).
Num(v) == [k |-> "num", v |-> v]
NoCoord == [k |-> "none", v |-> 0]
NanCoord == [k |-> "nan", v |-> 0]

\* geoip_reader.city(ip): an answer with coordinates and a country name
\* (name "None" when the database has none), or an exception.
City(lat, lon, country) ==
    [raises |-> "none", lat |-> lat, lon |-> lon, country |-> country]
CityRaises(e) ==
    [raises |-> e, lat |-> NoCoord, lon |-> NoCoord, country |-> "None"]
GeoAnswers ==
    { City(Num(-90), Num(-180), "Sri Lanka"), City(Num(90), Num(180), "None"),
      City(Num(91), Num(0), "Sri Lanka"), City(Num(-91), Num(0), "Sri Lanka"),
      City(Num(0), Num(181), "Sri Lanka"), City(Num(0), Num(-181), "Sri Lanka"),
      City(NoCoord, Num(0), "Sri Lanka"), City(Num(0), NoCoord, "Sri Lanka"),
      City(NanCoord, Num(0), "Sri Lanka"),
      CityRaises("AddressNotFoundError"), CityRaises("ValueError") }

\* lo <= c <= hi as Python evaluates it on a float.
Between(lo, c, hi) == c.k = "num" /\ lo <= c.v /\ c.v <= hi

NoGeo == [ok |-> FALSE, raises |-> "none", lat |-> 0, lon |-> 0,
          country |-> "None"]

\* A lookup without the validation of the coordinate ranges.
lookup_geolocation_unvalidated(ans) ==
    IF ans.raises # "none" \/ ans.lat.k = "none" \/ ans.lon.k = "none"
      THEN NoGeo
      ELSE [ok |-> TRUE, raises |-> "none", lat |-> ans.lat.v,
            lon |-> ans.lon.v,
            country |-> IF ans.country = "None" THEN "Unknown"
                        ELSE ans.country]

\* lookup_geolocation: geo_data, or None (ok = FALSE) when the database
\* raises, has no coordinates, or has coordinates outside the ranges.
lookup_geolocation(ans) ==
    IF ans.raises # "none" THEN NoGeo                 \* both except clauses
    ELSE IF ans.lat.k = "none" \/ ans.lon.k = "none" THEN NoGeo
    ELSE IF ~Between(-90, ans.lat, 90) \/ ~Between(-180, ans.lon, 180)
      THEN NoGeo
    ELSE [ok |-> TRUE, raises |-> "none", lat |-> ans.lat.v,
          lon |-> ans.lon.v,
          country |-> IF ans.country = "None" THEN "Unknown"
                      ELSE ans.country]

\* data after lines 75-99; ans, what the database answered for the
\* document's attacker_ip, is kept beside the document's fields.
Document(entry, exit, ans, dur, geo) ==
    [time_of_entry |-> entry, time_of_exit |-> exit, ans |-> ans,
     has_duration |-> dur.has, duration_of_attack |-> dur.v,
     has_location |-> geo.ok, lat |-> geo.lat, lon |-> geo.lon,
     has_country |-> geo.ok, country |-> geo.country]

NoData == Document(NoTime, NoTime, CityRaises("none"),
                   [has |-> FALSE, v |-> 0], NoGeo)

\* message_handler, lines 75-99, on a message that decodes to an object with
\* the given timestamps: the duration is computed and the geo data merged
\* in; an exception escaping a step ends the handler in its except branch.
message_handler_enrich(entry, exit, ans) ==
    /\ enPc = "idle"
    /\ enSeen < MaxDocs
    /\ enSeen' = enSeen + 1
    /\ LET geo == lookup_geolocation(ans)
       IN IF geo.raises # "none"
            THEN /\ enPc' = "idle"
                 /\ UNCHANGED <<enData, enIndexed>>
            ELSE /\ enData' = Document(entry, exit, ans,
                                       calculate_duration(entry, exit), geo)
                 /\ enPc' = "insert"
                 /\ UNCHANGED enIndexed
    /\ UNCHANGED notEN

\* insert_into_opensearch(data): client.index stores the document, or
\* raises an exception that is caught and logged.
index_document(o) ==
    /\ enPc = "insert"
    /\ enIndexed' = IF o = "ok" THEN enIndexed \cup {enData} ELSE enIndexed
    /\ enPc' = "ack"
    /\ UNCHANGED <<enData, enSeen>>
    /\ UNCHANGED notEN

\* await msg.ack(): the handler is done with the document.
ack_document ==
    /\ enPc = "ack"
    /\ enPc' = "idle"
    /\ enData' = NoData
    /\ UNCHANGED <<enIndexed, enSeen>>
    /\ UNCHANGED notEN

\* No lifecycle method has been called.
NoLifecycleCall ==
    [verb |-> "none", port |-> 0, raised |-> FALSE, msg |-> <<>>,
     result |-> "none"]

\* The search engine without the index, and a run of main that has done
\* nothing yet.
FreshRun(there) == [exists |-> there, deletes |-> 0, templates |-> 0, creates |-> 0]

NoStream == [name |-> "none"]

\* The catalog file is not there; HoneypotConfig as the class body leaves it
\* (_configs = None, _last_modified = 0).
NoFile == [kind |-> "missing", mtime |-> 0, contents |-> "none"]
NoCache == [configs |-> "None", last_modified |-> 0]

InitLCVars ==
    /\ lcPayload = [m \in MsgIds |-> "none"]
    /\ lcStream = {}
    /\ lcDeliveries = [m \in MsgIds |-> 0]
    /\ lcPc = "idle"
    /\ lcCur = 0
    /\ lcInsertRet = FALSE
    /\ lcIndex = [m \in MsgIds |-> 0]
    /\ lcAcked = {}
    /\ enPc = "idle"
    /\ enData = NoData
    /\ enIndexed = {}
    /\ enSeen = 0
    /\ lfCall = NoLifecycleCall
    /\ lcBoot = "stopped"
    /\ osRun = FreshRun(FALSE)
    /\ jsStream = NoStream
    /\ pubInit = FALSE
    /\ cfFile = NoFile
    /\ cfCache = NoCache
    /\ cfResult = "none"

\* js.publish(subject, message): the stream stores the message.
publish(m, p) ==
    /\ lcPayload[m] = "none"
    /\ \A k \in MsgIds : k < m => lcPayload[k] # "none"
    /\ lcPayload' = [lcPayload EXCEPT ![m] = p]
    /\ lcStream' = lcStream \cup {m}
    /\ UNCHANGED <<lcDeliveries, lcPc, lcCur, lcInsertRet, lcIndex, lcAcked>>
    /\ UNCHANGED notLC

\* A subscription that starts a callback for a message while the callback of
\* another message is still running.
deliver_overlapping(m) ==
    /\ m \in lcStream
    /\ m # lcCur
    /\ lcDeliveries[m] < MaxDeliver
    /\ lcDeliveries' = [lcDeliveries EXCEPT ![m] = @ + 1]
    /\ lcCur' = m
    /\ lcPc' = "decode"
    /\ lcInsertRet' = FALSE
    /\ UNCHANGED <<lcPayload, lcStream, lcIndex, lcAcked>>
    /\ UNCHANGED notLC

\* The durable consumer hands a stored, unacknowledged message to the callback
\* (first delivery, or redelivery after the ack wait); the subscription runs
\* one callback at a time.
deliver(m) ==
    /\ lcPc = "idle"
    /\ m \in lcStream
    /\ lcDeliveries[m] < MaxDeliver
    /\ lcDeliveries' = [lcDeliveries EXCEPT ![m] = @ + 1]
    /\ lcCur' = m
    /\ lcPc' = "decode"
    /\ lcInsertRet' = FALSE
    /\ UNCHANGED <<lcPayload, lcStream, lcIndex, lcAcked>>
    /\ UNCHANGED notLC

\* A handler whose except branch acknowledges the message it failed on.
message_handler_except_acks ==
    /\ lcPc' = "idle"
    /\ lcCur' = 0
    /\ lcStream' = lcStream \ {lcCur}
    /\ lcAcked' = lcAcked \cup {lcCur}
    /\ UNCHANGED <<lcPayload, lcDeliveries, lcInsertRet, lcIndex>>
    /\ UNCHANGED notLC

\* message_handler, the except branch: logging only.
message_handler_except ==
    /\ lcPc' = "idle"
    /\ lcCur' = 0
    /\ UNCHANGED <<lcPayload, lcStream, lcDeliveries, lcInsertRet, lcIndex,
                   lcAcked>>
    /\ UNCHANGED notLC

\* message_handler, lines 75-101: decode and enrich; a decode error goes to the
\* except branch.
message_handler_decode ==
    /\ lcPc = "decode"
    /\ IF json_loads_ok(lcPayload[lcCur])
         THEN /\ lcPc' = "insert"
              /\ UNCHANGED <<lcPayload, lcStream, lcDeliveries, lcCur,
                             lcInsertRet, lcIndex, lcAcked>>
              /\ UNCHANGED notLC
         ELSE message_handler_except

\* insert_into_opensearch: index the document; every exception is caught and
\* logged, and the function returns False.
insert_into_opensearch(o) ==
    /\ lcPc = "insert"
    /\ IF o = "ok"
         THEN /\ lcIndex' = [lcIndex EXCEPT ![lcCur] = @ + 1]
              /\ lcInsertRet' = TRUE
         ELSE /\ lcInsertRet' = FALSE
              /\ UNCHANGED lcIndex
    /\ lcPc' = "ack"
    /\ UNCHANGED <<lcPayload, lcStream, lcDeliveries, lcCur, lcAcked>>
    /\ UNCHANGED notLC

\* message_handler, line 105: await msg.ack(), whatever insert returned. A
\* work-queue stream drops an acknowledged message.
message_handler_ack ==
    /\ lcPc = "ack"
    /\ lcStream' = lcStream \ {lcCur}
    /\ lcAcked' = lcAcked \cup {lcCur}
    /\ lcPc' = "idle"
    /\ lcCur' = 0
    /\ UNCHANGED <<lcPayload, lcDeliveries, lcInsertRet, lcIndex>>
    /\ UNCHANGED notLC

(***************************************************************************)
(* The collector's main() from process start to the subscription, and the  *)
(* stream it shares with the honeypots' publishers                         *)
(***************************************************************************)

\* The messages followed through the runs of main.
BootMsgs == {1, 2}

\* What the search engine answers a call of setup_opensearch.
SetupOutcomes == {"ok", "ConnectionError"}

\* StreamConfig(...) of main (Logger_Subscriber.py) and of
\* NATSJetstreamPublisher._ensure_stream.
CollectorStreamConfig ==
    [name |-> "honeypot", subjects |-> {"honeypot.logs"},
     retention |-> "workqueue", storage |-> "file", max_age |-> 60]

PublisherStreamConfig ==
    [name |-> "honeypot", subjects |-> {"honeypot.logs"},
     retention |-> "workqueue", storage |-> "file", max_age |-> 3600]

\* js.add_stream(config): the server creates the stream, answers a request
\* that repeats the stream's configuration, and refuses another
\* configuration under the same name ("stream name already in use").
add_stream(cur, cfg) ==
    IF cur = NoStream THEN [stream |-> cfg, ok |-> TRUE]
    ELSE [stream |-> cur, ok |-> cur = cfg]

\* The container of the collector starts (first start, restart policy, or
\* POST /stop and POST /start): main begins, the coroutine of the old process
\* is gone.
collector_starts ==
    /\ lcBoot \in {"stopped", "exited", "subscribed"}
    /\ lcBoot' = "exists"
    /\ osRun' = FreshRun(osRun.exists)
    /\ lcPc' = "idle"
    /\ lcCur' = 0
    /\ lcInsertRet' = FALSE
    /\ UNCHANGED <<lcPayload, lcStream, lcDeliveries, lcIndex, lcAcked>>
    /\ UNCHANGED <<lfCall, jsStream, pubInit>>
    /\ UNCHANGED cfVars
    /\ UNCHANGED notXT

\* setup_opensearch, lines 187-190: an existing index is deleted.  Any
\* exception makes setup_opensearch return False and main return.
setup_indices_delete(o) ==
    /\ lcBoot = "exists"
    /\ IF o # "ok"
         THEN /\ lcBoot' = "exited"
              /\ UNCHANGED <<osRun, lcIndex>>
         ELSE /\ lcBoot' = "template"
              /\ IF osRun.exists
                   THEN /\ osRun' = [osRun EXCEPT !.exists = FALSE,
                                                  !.deletes = @ + 1]
                        /\ lcIndex' = [m \in MsgIds |-> 0]
                   ELSE UNCHANGED <<osRun, lcIndex>>
    /\ UNCHANGED <<lcPayload, lcStream, lcDeliveries, lcPc, lcCur,
                   lcInsertRet, lcAcked>>
    /\ UNCHANGED <<lfCall, jsStream, pubInit>>
    /\ UNCHANGED cfVars
    /\ UNCHANGED notXT

\* setup_opensearch, lines 192-198: put_index_template.
setup_put_index_template(o) ==
    /\ lcBoot = "template"
    /\ IF o # "ok"
         THEN /\ lcBoot' = "exited"
              /\ UNCHANGED osRun
         ELSE /\ lcBoot' = "create"
              /\ osRun' = [osRun EXCEPT !.templates = @ + 1]
    /\ UNCHANGED lcVars
    /\ UNCHANGED <<lfCall, jsStream, pubInit>>
    /\ UNCHANGED cfVars
    /\ UNCHANGED notXT

\* setup_opensearch, lines 200-206: indices.create with the mapping.
setup_indices_create(o) ==
    /\ lcBoot = "create"
    /\ IF o # "ok"
         THEN /\ lcBoot' = "exited"
              /\ UNCHANGED osRun
         ELSE /\ lcBoot' = "stream"
              /\ osRun' = [osRun EXCEPT !.exists = TRUE, !.creates = @ + 1]
    /\ UNCHANGED lcVars
    /\ UNCHANGED <<lfCall, jsStream, pubInit>>
    /\ UNCHANGED cfVars
    /\ UNCHANGED notXT

\* main, lines 235-249: stream_info, and add_stream when it raises.
main_ensure_stream ==
    /\ lcBoot = "stream"
    /\ lcBoot' = "subscribe"
    /\ jsStream' = IF jsStream = NoStream
                     THEN add_stream(jsStream, CollectorStreamConfig).stream
                     ELSE jsStream
    /\ UNCHANGED lcVars
    /\ UNCHANGED <<lfCall, osRun, pubInit>>
    /\ UNCHANGED cfVars
    /\ UNCHANGED notXT

\* main, lines 259-265: js.subscribe(cb=message_handler).
main_subscribe ==
    /\ lcBoot = "subscribe"
    /\ lcBoot' = "subscribed"
    /\ UNCHANGED lcVars
    /\ UNCHANGED <<lfCall, osRun, jsStream, pubInit>>
    /\ UNCHANGED cfVars
    /\ UNCHANGED notXT

\* NATSJetstreamPublisher.connect: _ensure_stream, whose "already in use"
\* error is logged and swallowed, then initialized = True.
publisher_connect ==
    /\ ~pubInit
    /\ pubInit' = TRUE
    /\ jsStream' = add_stream(jsStream, PublisherStreamConfig).stream
    /\ UNCHANGED lcVars
    /\ UNCHANGED <<lfCall, lcBoot, osRun>>
    /\ UNCHANGED cfVars
    /\ UNCHANGED notXT

\* NATSJetstreamPublisher.publish of a connected publisher.
publisher_publish(m, p) ==
    /\ pubInit
    /\ publish(m, p)

\* The subscription delivers while the process that made it runs.
subscription_delivers(m) ==
    /\ lcBoot = "subscribed"
    /\ deliver(m)

\* The steps of message_handler in the running process.
handler_decodes ==
    /\ lcBoot = "subscribed"
    /\ message_handler_decode

\* A handler that sets the index up again when the search engine refuses a
\* document.
handler_indexes_resetting(o) ==
    /\ lcBoot = "subscribed"
    /\ lcPc = "insert"
    /\ lcIndex' = IF o = "RequestError" THEN [m \in MsgIds |-> 0]
                  ELSE IF o = "ok" THEN [lcIndex EXCEPT ![lcCur] = @ + 1]
                  ELSE lcIndex
    /\ lcInsertRet' = (o = "ok")
    /\ lcPc' = "ack"
    /\ UNCHANGED <<lcPayload, lcStream, lcDeliveries, lcCur, lcAcked>>
    /\ UNCHANGED notLC

handler_indexes(o) ==
    /\ lcBoot = "subscribed"
    /\ insert_into_opensearch(o)

handler_acks ==
    /\ lcBoot = "subscribed"
    /\ message_handler_ack

(***************************************************************************)
(* HONEYPOT MANAGER                                                        *)
(* honeypot_manager_controller.py over models/Honeypot.py.  The handlers   *)
(* are "async def" functions that call the blocking model methods without  *)
(* awaiting anything, so the event loop runs each handler to completion:   *)
(* requests in flight together are handled one after the other, in any     *)
(* order.                                                                  *)
(***************************************************************************)

Slots    == {1, 2}                   \* requests in flight at once
Types    == {"ssh", "ftp"}           \* HoneypotConfig.DEFAULT_CONFIGS
ReqTypes == Types \cup {"telnet"}    \* what a request body may name
Ports    == {22, 2222}               \* host ports requests ask for
Euids    == {0, 1000}                \* root, or a rootless user

\* HoneypotCreate.honeypot_port is a plain int: the values around the limits
\* of the port range and of the privileged range.
AnyPorts == {0, 1023, 1024, 65535, 65536}
Verbs    == {"start", "stop", "restart", "delete"}

PrivilegedBelow == 1024
PassiveStart    == 60000
PassiveEnd      == 60100

\* f'hive-{type}-{port}', kept as its characters' groups so that split('-')
\* can be computed.
HoneypotName(t, p) == <<"hive", "-", t, "-", ToString(p)>>

\* f'hive-{type}-image'
HoneypotImage(t) == <<"hive", "-", t, "-", "image">>

Names == {HoneypotName(t, p) : t \in Types, p \in Ports}

\* DEFAULT_CONFIGS[t]["ports"]: the container port of the type.
ContainerPort(t) == IF t = "ssh" THEN 22 ELSE 21

\* DEFAULT_CONFIGS[t]["passive_ports"]
PassivePorts(t) == IF t = "ftp" THEN PassiveStart..PassiveEnd ELSE {}

\* _get_port_mapping: the host ports the container publishes.
get_port_mapping(t, p) == {p} \cup PassivePorts(t)

\* Labels carrying the type's container port instead of the host port.
HoneypotLabelsContainerPort(t, p) ==
    [owner |-> "hive", hive_type |-> t, hive_port |-> ToString(ContainerPort(t))]

\* _build_container: the labels given to containers.create.
HoneypotLabels(t, p) ==
    [owner |-> "hive", hive_type |-> t, hive_port |-> ToString(p)]

\* int(container.labels.get('hive.port', '0'))
IntOfString(str) ==
    LET Known == Ports \cup AnyPorts \cup {21, 22}
    IN IF \E n \in Known : ToString(n) = str
         THEN CHOOSE n \in Known : ToString(n) = str
         ELSE 0

\* ---- the container runtime, as the podman client presents it ------------
RtExists(cs, name) == \E c \in cs : c.name = name
RtGet(cs, name) == CHOOSE c \in cs : c.name = name
RtSet(cs, name, st) ==
    {IF c.name = name THEN [c EXCEPT !.status = st] ELSE c : c \in cs}
RtRemove(cs, name) == {c \in cs : c.name # name}
\* containers.create takes a host port as an unsigned 16-bit number, 0
\* meaning "any free port", and refuses a mapping outside that range.
RtPortsValid(ports) == ports \subseteq 0..65535
\* A start binds the published host ports: it fails while another running
\* container holds one of them.
RtPortBusy(cs, name) ==
    \E c \in cs : /\ c.name # name
                  /\ c.status = "running"
                  /\ c.ports \cap RtGet(cs, name).ports # {}

\* ---- exceptions and messages --------------------------------------------
Exc(type, msg) == [type |-> type, code |-> 0, msg |-> msg]
HTTPException(code, detail) == [type |-> "HTTPException", code |-> code, msg |-> detail]
NoExc == Exc("none", <<>>)

HoneypotErrorClasses ==
    {"HoneypotError", "HoneypotExistsError", "HoneypotContainerError",
     "HoneypotImageError", "HoneypotTypeNotFoundError",
     "HoneypotPrivilegedPortError"}

Contains(msg, tok) == \E i \in 1..Len(msg) : msg[i] = tok

\* str.split('-')
RECURSIVE SplitDash(_)
SplitDash(msg) ==
    IF \A i \in 1..Len(msg) : msg[i] # "-"
      THEN <<msg>>
      ELSE LET i == CHOOSE k \in 1..Len(msg) :
                        msg[k] = "-" /\ \A j \in 1..(k - 1) : msg[j] # "-"
           IN <<SubSeq(msg, 1, i - 1)>> \o SplitDash(SubSeq(msg, i + 1, Len(msg)))

\* _ERROR_MAP: the status code of an exception type (500 when unmapped).
ERROR_MAP(type) ==
    CASE type = "HoneypotExistsError"            -> 409
      [] type = "HoneypotImageError"             -> 500
      [] type = "HoneypotContainerError"         -> 500
      [] type = "HoneypotPrivilegedPortError"    -> 400
      [] type = "HoneypotActiveConnectionsError" -> 423
      [] type = "HoneypotTypeNotFoundError"      -> 404
      [] type = "HoneypotError"                  -> 500
      [] type = "ValueError"                     -> 400
      [] type = "FileNotFoundError"              -> 404
      [] type = "PermissionError"                -> 403
      [] OTHER                                   -> 500

\* _ERROR_MAP: the default message of an exception type.
ERROR_DEFAULT_MSG(type, message) ==
    CASE type = "HoneypotExistsError" ->
            <<"Honeypot ", "already exists", " with this name and port">>
      [] type = "HoneypotContainerError" -> <<"Container operation failed">>
      [] type = "HoneypotError" -> <<"Honeypot operation error">>
      [] type = "HoneypotTypeNotFoundError" -> <<"Unknown honeypot type">>
      [] type = "HoneypotPrivilegedPortError" ->
            <<"Port <1024 needs CAP_NET_BIND_SERVICE or root privileges">>
      [] OTHER -> message

\* _simplify_error_message.  Of _ERROR_PATTERNS only the first (the runtime's
\* name conflict) can match a message raised here; then comes the special
\* handling of "already exists"; the "Error:" rule needs a message holding
\* "Error:", which none does.
simplify_error_message(message) ==
    LET Pat1Head == "creating container storage: the container name "
        Pat1Tail == " is already in use"
    IN IF Contains(message, Pat1Head) /\ Contains(message, Pat1Tail)
         THEN LET i == CHOOSE k \in 1..Len(message) : message[k] = Pat1Head
                  j == CHOOSE k \in 1..Len(message) : message[k] = Pat1Tail
              IN SubSeq(message, 1, i - 1) \o <<"Honeypot ">>
                 \o SubSeq(message, i + 1, j - 1) \o <<" ", "already exists">>
                 \o SubSeq(message, j + 1, Len(message))
         ELSE IF Contains(message, "that name is already in use")
                 \/ Contains(message, "already exists")
           THEN <<"A honeypot with this name ", "already exists",
                  ". Please use a different port.">>
           ELSE message

\* _err: the HTTP response (status code and detail) raised for an exception.
err(exc) ==
    IF exc.type = "HTTPException"
      THEN [code |-> exc.code, detail |-> exc.msg]
      ELSE IF exc.type = "HoneypotExistsError"
        THEN LET parts == SplitDash(exc.msg)
             IN IF Len(parts) >= 3
                  THEN [code |-> 409,
                        detail |-> <<"A honeypot of type '">> \o parts[2]
                                   \o <<"' using port ">> \o parts[3]
                                   \o <<" ", "already exists",
                                        ". Please use a different port.">>]
                  ELSE [code |-> 409,
                        detail |-> <<"Honeypot '">> \o exc.msg
                                   \o <<"' ", "already exists",
                                        ". Please use a different name or port.">>]
        ELSE LET message == simplify_error_message(exc.msg)
             IN [code |-> ERROR_MAP(exc.type),
                 detail |-> IF message = <<exc.type>>
                              THEN ERROR_DEFAULT_MSG(exc.type, message)
                              ELSE message]

\* ---- models/Honeypot.py ---------------------------------------------------
NoHp == [name |-> <<>>, type |-> "none", port |-> 0, status |-> "none"]

\* HoneypotConfig.type_exists
type_exists(t) == t \in Types

\* validate_port: TRUE when it returns, FALSE when it raises
\* HoneypotPrivilegedPortError.
validate_port(p, euid) == ~(p < PrivilegedBelow /\ euid # 0)

\* _honeypot_exist
honeypot_exist(cs, name) == RtExists(cs, name)

\* create_honeypot, lines 162-168: what the except clauses re-raise.
create_honeypot_reraise(exc) ==
    IF exc.type = "FileNotFoundError"
      THEN Exc("HoneypotError", <<"File not found: ">> \o exc.msg)
      ELSE IF exc.type \in HoneypotErrorClasses
        THEN Exc("HoneypotError", exc.msg)
        ELSE exc

\* _build_container: containers.create with the name, labels and ports.
build_container(cs, t, p) ==
    IF ~RtPortsValid(get_port_mapping(t, p))
      THEN [cs |-> cs,
            exc |-> Exc("podman.errors.PodmanError",
                        <<"invalid port mapping: ", ToString(p)>>)]
    ELSE IF RtExists(cs, HoneypotName(t, p))
      THEN [cs |-> cs,
            exc |-> Exc("podman.errors.PodmanError",
                        <<"creating container storage: the container name ">>
                        \o HoneypotName(t, p)
                        \o <<" is already in use", ": ",
                             "that name is already in use">>)]
      ELSE [cs |-> cs \cup {[name   |-> HoneypotName(t, p),
                             image  |-> HoneypotImage(t),
                             labels |-> HoneypotLabels(t, p),
                             ports  |-> get_port_mapping(t, p),
                             status |-> "created"]},
            exc |-> NoExc]

\* A create_honeypot that creates the container right after the build
\* instead of calling itself.
create_honeypot_direct(cs, imgs, euid, t, p, calls) ==
    LET fail(e) == [cs |-> cs, imgs |-> imgs, calls |-> calls,
                    exc |-> create_honeypot_reraise(e)]
    IN IF ~type_exists(t)
         THEN fail(Exc("HoneypotTypeNotFoundError",
                       <<"Honeypot type '", t, "' not found in configuration">>))
       ELSE IF ~validate_port(p, euid)
         THEN fail(Exc("HoneypotPrivilegedPortError",
                       <<"Cannot use privileged port ", ToString(p),
                         ". Please use a port number >= 1024">>))
       ELSE IF honeypot_exist(cs, HoneypotName(t, p))
         THEN fail(Exc("HoneypotExistsError", <<"Honeypot ", "already exists">>))
       ELSE LET r == build_container(cs, t, p)
            IN [cs |-> r.cs, imgs |-> imgs \cup {HoneypotImage(t)},
                calls |-> calls, exc |-> create_honeypot_reraise(r.exc)]

\* create_honeypot: validate, refuse an existing name, then create the
\* container, or build the image and call create_honeypot again.
RECURSIVE create_honeypot(_, _, _, _, _, _)
create_honeypot(cs, imgs, euid, t, p, calls) ==
    LET fail(e) == [cs |-> cs, imgs |-> imgs, calls |-> calls,
                    exc |-> create_honeypot_reraise(e)]
    IN IF ~type_exists(t)
         THEN fail(Exc("HoneypotTypeNotFoundError",
                       <<"Honeypot type '", t, "' not found in configuration">>))
       ELSE IF ~validate_port(p, euid)
         THEN fail(Exc("HoneypotPrivilegedPortError",
                       <<"Cannot use privileged port ", ToString(p),
                         ". Please use a port number >= 1024">>))
       ELSE IF honeypot_exist(cs, HoneypotName(t, p))
         THEN fail(Exc("HoneypotExistsError", <<"Honeypot ", "already exists">>))
       ELSE IF HoneypotImage(t) \in imgs
         THEN LET r == build_container(cs, t, p)
              IN [cs |-> r.cs, imgs |-> imgs, calls |-> calls,
                  exc |-> create_honeypot_reraise(r.exc)]
         ELSE LET r == create_honeypot(cs, imgs \cup {HoneypotImage(t)},
                                       euid, t, p, calls + 1)
              IN [r EXCEPT !.exc = create_honeypot_reraise(r.exc)]

\* get_honeypot_details: the fields read from the container, or NoHp when
\* the runtime has no such container (the method returns None).
get_honeypot_details(cs, name) ==
    IF RtExists(cs, name)
      THEN LET c == RtGet(cs, name)
           IN [name |-> c.name, type |-> c.labels.hive_type,
               port |-> IntOfString(c.labels.hive_port), status |-> c.status]
      ELSE NoHp

\* ---- controller: discovery and listing ----------------------------------
\* The label every listing asks the runtime for.
ServiceLabel == <<"service", "hive-honeypot-manager">>

\* _list_ids: podman ps -a with one --filter label=<key>=<value> per filter;
\* the containers carrying every label asked for.
list_ids(cs, flt) ==
    {c.name : c \in {x \in cs : \A f \in flt :
                                  /\ f[1] \in DOMAIN x.labels
                                  /\ x.labels[f[1]] = f[2]}}

\* _hp_responses: the details of every listed container that is still there.
hp_responses(cs, ids) ==
    {get_honeypot_details(cs, n) : n \in {i \in ids : RtExists(cs, i)}}

\* list_all: GET /
list_all(cs) ==
    [code |-> 200, body |-> hp_responses(cs, list_ids(cs, {ServiceLabel}))]

\* list_honeypots_by_type: GET /type/{honeypot_type}
list_honeypots_by_type(cs, t) ==
    IF ~type_exists(t)
      THEN [code |-> ERROR_MAP("HoneypotTypeNotFoundError"), body |-> {}]
      ELSE LET honeypots ==
                   hp_responses(cs, list_ids(cs, {ServiceLabel, <<"hive_type", t>>}))
           IN IF honeypots = {}
                THEN [code |-> 404, body |-> {}]
                ELSE [code |-> 200, body |-> honeypots]

valid_statuses == {"created", "started", "exited"}

\* list_honeypots_by_status: GET /status/{status}
list_honeypots_by_status(cs, status) ==
    IF status \notin valid_statuses
      THEN [code |-> 400, body |-> {}]
      ELSE LET all_honeypots == hp_responses(cs, list_ids(cs, {ServiceLabel}))
               filtered_honeypots ==
                   {hp \in all_honeypots :
                       \/ status = "started" /\ hp.status = "running"
                       \/ hp.status = status}
           IN IF filtered_honeypots = {}
                THEN [code |-> 404, body |-> {}]
                ELSE [code |-> 200, body |-> filtered_honeypots]

\* start_honeypot
start_honeypot(cs, name) ==
    IF ~RtExists(cs, name)
      THEN [cs |-> cs, exc |-> Exc("HoneypotContainerError",
                                   <<"Container not found: ">> \o name)]
    ELSE IF RtGet(cs, name).status = "running"
      THEN [cs |-> cs, exc |-> NoExc]
    ELSE IF RtPortBusy(cs, name)
      THEN [cs |-> cs, exc |-> Exc("HoneypotContainerError",
                                   <<"Failed to start honeypot: ",
                                     "address already in use">>)]
      ELSE [cs |-> RtSet(cs, name, "running"), exc |-> NoExc]

\* restart_honeypot
restart_honeypot(cs, name) ==
    IF ~RtExists(cs, name)
      THEN [cs |-> cs, exc |-> Exc("HoneypotContainerError",
                                   <<"Container not found: ">> \o name)]
    ELSE IF RtPortBusy(cs, name)
      THEN [cs |-> RtSet(cs, name, "exited"),
            exc |-> Exc("HoneypotContainerError",
                        <<"Failed to restart honeypot: ",
                          "address already in use">>)]
      ELSE [cs |-> RtSet(cs, name, "running"), exc |-> NoExc]

\* stop_honeypot
stop_honeypot(cs, name) ==
    IF ~RtExists(cs, name)
      THEN [cs |-> cs, exc |-> Exc("HoneypotContainerError",
                                   <<"Container not found: ">> \o name)]
    ELSE IF RtGet(cs, name).status = "running"
      THEN [cs |-> RtSet(cs, name, "exited"), exc |-> NoExc]
      ELSE [cs |-> cs, exc |-> NoExc]

\* delete_honeypot: remove(timeout=10), not forced; the runtime refuses to
\* remove a running container.
delete_honeypot(cs, name) ==
    IF ~RtExists(cs, name)
      THEN [cs |-> cs, exc |-> NoExc]
    ELSE IF RtGet(cs, name).status = "running"
      THEN [cs |-> cs, exc |-> Exc("HoneypotContainerError",
                                   <<"Failed to delete honeypot: ",
                                     "container is running">>)]
      ELSE [cs |-> RtRemove(cs, name), exc |-> NoExc]

\* ---- HoneypotConfig.load_configs -------------------------------------------
Mtimes == 1..MaxMtime

\* What the catalog file can hold, and DEFAULT_CONFIGS.
Catalogs == {"catalog A", "catalog B"}
DEFAULT_CONFIGS == "DEFAULT_CONFIGS"

\* The file is written, replaced or restored: any contents under any
\* modification time; kind "unreadable" is a file open() or yaml.safe_load
\* raises on.
catalog_file_set(kind, mtime, contents) ==
    /\ cfFile' = [kind |-> kind, mtime |-> mtime, contents |-> contents]
    /\ cfFile' # cfFile
    /\ UNCHANGED <<cfCache, cfResult>>
    /\ UNCHANGED <<lfCall, lcBoot, osRun, jsStream, pubInit>>
    /\ UNCHANGED notXT

catalog_file_removed ==
    /\ cfFile # NoFile
    /\ cfFile' = NoFile
    /\ UNCHANGED <<cfCache, cfResult>>
    /\ UNCHANGED <<lfCall, lcBoot, osRun, jsStream, pubInit>>
    /\ UNCHANGED notXT

\* load_configs: the default when the file is missing; the cached value when
\* there is one and the file is not newer than recorded; otherwise the file is
\* read, and an exception gives the default.
load_configs ==
    /\ IF cfFile.kind = "missing"
         THEN /\ cfResult' = DEFAULT_CONFIGS
              /\ UNCHANGED cfCache
       ELSE IF cfCache.configs # "None" /\ cfFile.mtime <= cfCache.last_modified
         THEN /\ cfResult' = cfCache.configs
              /\ UNCHANGED cfCache
       ELSE IF cfFile.kind = "unreadable"
         THEN /\ cfResult' = DEFAULT_CONFIGS
              /\ UNCHANGED cfCache
         ELSE /\ cfCache' = [configs |-> cfFile.contents,
                             last_modified |-> cfFile.mtime]
              /\ cfResult' = cfFile.contents
    /\ UNCHANGED cfFile
    /\ UNCHANGED <<lfCall, lcBoot, osRun, jsStream, pubInit>>
    /\ UNCHANGED notXT

\* ---- the except blocks of the lifecycle methods ---------------------------
\* What the except blocks look for in str(e).
Phrases ==
    {"rootlessport cannot expose privileged port", "permission denied",
     "no such container", "No such container", "container already running",
     "container not running", "removal of container",
     "is already in progress", "22", "8080"}

LifecyclePorts == {22, 8080}

\* str.lower() of one phrase.
lower(tok) == IF tok = "No such container" THEN "no such container" ELSE tok

\* error_msg.lower()
Lowered(msg) == [i \in DOMAIN msg |-> lower(msg[i])]

\* The messages of at most MaxPhrases phrases.
RECURSIVE MessagesOf(_)
MessagesOf(k) ==
    IF k = 0 THEN {<<>>}
    ELSE MessagesOf(k - 1) \cup
         {Append(m, ph) : m \in {x \in MessagesOf(k - 1) : Len(x) = k - 1},
                          ph \in Phrases}

\* The test for the privileged-port failure, made on str(e) as it is.
PrivilegedPortMessage(port, msg) ==
    /\ \/ Contains(msg, "rootlessport cannot expose privileged port")
       \/ Contains(msg, "permission denied")
    /\ Contains(msg, ToString(port))

\* except Exception of start_honeypot: "True" or the class it raises.
start_honeypot_except(port, msg) ==
    IF PrivilegedPortMessage(port, msg) THEN "HoneypotPrivilegedPortError"
    ELSE IF Contains(Lowered(msg), "no such container")
      THEN "HoneypotContainerError"
    ELSE IF Contains(Lowered(msg), "container already running") THEN "True"
    ELSE "HoneypotContainerError"

\* except Exception of restart_honeypot.
restart_honeypot_except(port, msg) ==
    IF PrivilegedPortMessage(port, msg) THEN "HoneypotPrivilegedPortError"
    ELSE "HoneypotContainerError"

\* except Exception of stop_honeypot.
stop_honeypot_except(port, msg) ==
    IF Contains(Lowered(msg), "no such container")
      THEN "HoneypotContainerError"
    ELSE IF Contains(Lowered(msg), "container not running") THEN "True"
    ELSE "HoneypotContainerError"

\* except Exception of delete_honeypot.
delete_honeypot_except(port, msg) ==
    IF Contains(Lowered(msg), "no such container") THEN "True"
    ELSE IF /\ Contains(Lowered(msg), "removal of container")
            /\ Contains(Lowered(msg), "is already in progress") THEN "True"
    ELSE "HoneypotContainerError"

\* hp.<verb>_honeypot() whose runtime call returned (raised = FALSE) or
\* raised an exception with message msg.
lifecycle_call(verb, port, raised, msg) ==
    /\ lfCall = NoLifecycleCall
    /\ ~raised => msg = <<>>
    /\ lfCall' =
          [verb |-> verb, port |-> port, raised |-> raised, msg |-> msg,
           result |->
             IF ~raised THEN "True"
             ELSE CASE verb = "start"   -> start_honeypot_except(port, msg)
                    [] verb = "restart" -> restart_honeypot_except(port, msg)
                    [] verb = "stop"    -> stop_honeypot_except(port, msg)
                    [] OTHER            -> delete_honeypot_except(port, msg)]
    /\ UNCHANGED <<lcBoot, osRun, jsStream, pubInit>>
    /\ UNCHANGED cfVars
    /\ UNCHANGED notXT

\* The caller has the method's result.
lifecycle_return ==
    /\ lfCall # NoLifecycleCall
    /\ lfCall' = NoLifecycleCall
    /\ UNCHANGED <<lcBoot, osRun, jsStream, pubInit>>
    /\ UNCHANGED cfVars
    /\ UNCHANGED notXT

\* ---- honeypot_manager_controller.py ---------------------------------------
NoResp == [code |-> 0, detail |-> <<>>, honeypot |-> NoHp]
Response(code, detail, hp) == [code |-> code, detail |-> detail, honeypot |-> hp]
ErrResponse(exc) == Response(err(exc).code, err(exc).detail, NoHp)

IdleSlot ==
    [st |-> "idle", verb |-> "none", rtype |-> "none", rport |-> 0,
     rname |-> <<>>, pre |-> "none", preConn |-> FALSE, after201 |-> FALSE,
     conc |-> FALSE, calls |-> 0, raised |-> "none", resp |-> NoResp]

\* _do, line 266: the message of the refusal.
BusyMessage == <<"Cannot delete a running honeypot, stop it first">>

\* A controller that lets every delete through to delete_honeypot.
do_guard_none(verb, status) == FALSE

\* _do, lines 265-266: a delete of a running honeypot is refused.
do_guard(verb, status) == verb = "delete" /\ status = "running"

\* getattr(hp, f"{verb}_honeypot")()
do_op(cs, verb, name) ==
    CASE verb = "start"   -> start_honeypot(cs, name)
      [] verb = "stop"    -> stop_honeypot(cs, name)
      [] verb = "restart" -> restart_honeypot(cs, name)
      [] verb = "delete"  -> delete_honeypot(cs, name)

DoMessage(verb) ==
    CASE verb = "start"   -> <<"Honeypot started successfully">>
      [] verb = "stop"    -> <<"Honeypot stopped successfully">>
      [] verb = "restart" -> <<"Honeypot restarted successfully">>
      [] verb = "delete"  -> <<"Honeypot deleted successfully">>

\* A session lives on a listening port: sessions on a port no running
\* container publishes are gone.
LiveSessions(cs, est) ==
    {p \in est : \E c \in cs : c.status = "running" /\ p \in c.ports}

\* The slot a new request takes: the lowest free one, while requests remain.
FreeSlot(s) ==
    /\ hpReqs < MaxReqs
    /\ hpSlot[s].st = "idle"
    /\ \A o \in Slots : o < s => hpSlot[o].st # "idle"

\* A client sends POST / {honeypot_type: t, honeypot_port: p}.
submit_create(s, t, p) ==
    LET valid == type_exists(t) /\ validate_port(p, hpEuid)
        fresh == ~RtExists(hpContainers, HoneypotName(t, p))
        same(o) == /\ o # s
                   /\ hpSlot[o].verb = "create"
                   /\ hpSlot[o].rtype = t
                   /\ hpSlot[o].rport = p
        twin(o) == same(o) /\ hpSlot[o].st = "pending" /\ valid /\ fresh
    IN /\ FreeSlot(s)
       /\ hpSlot' =
            [o \in Slots |->
               IF o = s
                 THEN [IdleSlot EXCEPT
                         !.st = "pending", !.verb = "create",
                         !.rtype = t, !.rport = p,
                         !.after201 = \E q \in Slots :
                                         /\ same(q)
                                         /\ hpSlot[q].st = "done"
                                         /\ hpSlot[q].resp.code = 201
                                         /\ ~fresh,
                         !.conc = \E q \in Slots : twin(q)]
                 ELSE IF twin(o) THEN [hpSlot[o] EXCEPT !.conc = TRUE]
                                 ELSE hpSlot[o]]
       /\ hpReqs' = hpReqs + 1
       /\ UNCHANGED <<hpEuid, hpContainers, hpImages, hpEstablished>>
       /\ UNCHANGED notHP

\* A client sends POST /{name}/{start|stop|restart} or DELETE /{name}.
submit_do(s, verb, name) ==
    /\ FreeSlot(s)
    /\ hpSlot' = [hpSlot EXCEPT ![s] =
                    [IdleSlot EXCEPT !.st = "pending", !.verb = verb,
                                     !.rname = name]]
    /\ hpReqs' = hpReqs + 1
    /\ UNCHANGED <<hpEuid, hpContainers, hpImages, hpEstablished>>
    /\ UNCHANGED notHP

\* create: the POST / handler.
create(s) ==
    /\ hpSlot[s].st = "pending"
    /\ hpSlot[s].verb = "create"
    /\ LET t == hpSlot[s].rtype
           p == hpSlot[s].rport
           r == create_honeypot(hpContainers, hpImages, hpEuid, t, p, 1)
       IN /\ hpContainers' = r.cs
          /\ hpImages' = r.imgs
          /\ hpSlot' = [hpSlot EXCEPT ![s] =
               [@ EXCEPT
                  !.st = "done",
                  !.calls = r.calls,
                  !.raised = r.exc.type,
                  !.pre = get_honeypot_details(hpContainers,
                                               HoneypotName(t, p)).status,
                  !.resp = IF r.exc = NoExc
                             THEN Response(201, <<>>,
                                    get_honeypot_details(r.cs, HoneypotName(t, p)))
                             ELSE ErrResponse(r.exc)]]
    /\ UNCHANGED <<hpEuid, hpEstablished, hpReqs>>
    /\ UNCHANGED notHP

\* _do: the handler of start, stop, restart and delete.
do(s) ==
    /\ hpSlot[s].st = "pending"
    /\ hpSlot[s].verb \in Verbs
    /\ LET verb == hpSlot[s].verb
           name == hpSlot[s].rname
           hp   == get_honeypot_details(hpContainers, name)
           r    == do_op(hpContainers, verb, name)
           done(cs, raised, resp) ==
               /\ hpContainers' = cs
               /\ hpEstablished' = LiveSessions(cs, hpEstablished)
               /\ hpSlot' = [hpSlot EXCEPT ![s] =
                    [@ EXCEPT !.st = "done", !.pre = hp.status,
                              !.preConn = hp.port \in hpEstablished,
                              !.raised = raised,
                              !.resp = resp]]
       IN IF hp = NoHp
            THEN done(hpContainers, "HTTPException",
                      ErrResponse(HTTPException(404,
                          <<"Honeypot '">> \o name \o <<"' not found">>)))
          ELSE IF do_guard(verb, hp.status)
            THEN done(hpContainers, "HoneypotContainerError",
                      ErrResponse(Exc("HoneypotContainerError", BusyMessage)))
          ELSE IF r.exc # NoExc
            THEN done(r.cs, r.exc.type, ErrResponse(r.exc))
          ELSE done(r.cs, "none",
                    Response(200, DoMessage(verb),
                             IF verb = "delete"
                               THEN hp
                               ELSE get_honeypot_details(r.cs, name)))
    /\ UNCHANGED <<hpEuid, hpImages, hpReqs>>
    /\ UNCHANGED notHP

\* The client receives the response; the slot is free again.
reply(s) ==
    /\ hpSlot[s].st = "done"
    /\ hpSlot' = [hpSlot EXCEPT ![s] = IdleSlot]
    /\ UNCHANGED <<hpEuid, hpContainers, hpImages, hpEstablished, hpReqs>>
    /\ UNCHANGED notHP

\* An attacker opens a TCP session to a host port a running honeypot publishes.
attacker_connect(p) ==
    /\ p \notin hpEstablished
    /\ \E c \in hpContainers : c.status = "running" /\ c.labels.hive_port = ToString(p)
    /\ hpEstablished' = hpEstablished \cup {p}
    /\ UNCHANGED <<hpEuid, hpContainers, hpImages, hpSlot, hpReqs>>
    /\ UNCHANGED notHP

\* The attacker closes the session.
attacker_disconnect(p) ==
    /\ p \in hpEstablished
    /\ hpEstablished' = hpEstablished \ {p}
    /\ UNCHANGED <<hpEuid, hpContainers, hpImages, hpSlot, hpReqs>>
    /\ UNCHANGED notHP

InitHPVars ==
    /\ hpEuid \in Euids
    /\ hpContainers = {}
    /\ hpImages = {}
    /\ hpEstablished = {}
    /\ hpSlot = [s \in Slots |-> IdleSlot]
    /\ hpReqs = 0

(***************************************************************************)
(* LOG INFRASTRUCTURE                                                      *)
(*                                                                         *)
(* log_manager_router.py runs the checks of a handler on the event loop    *)
(* and the orchestrator's batch operation in the thread pool               *)
(* (await run_in_threadpool(...)), so the batch operations of two requests *)
(* run concurrently.  Every podman invocation (PodmanRunner.run or         *)
(* subprocess.run) and every time.sleep is one step.  A handler is a       *)
(* sequence of blocks (one per method called), a block a sequence of       *)
(* instructions, and a request slot holds its position in both.            *)
(***************************************************************************)

InSlots == {1, 2}                        \* requests in flight at once

Node      == "hive-opensearch-node"      \* OpenSearchManager.name
Dash      == "hive-opensearch-dash"      \* OpenSearchManager._DASH_NAME
Nats      == "hive-nats-server"          \* NatsServerManager.name
Collector == "hive-log-collector"        \* LogCollectorManager.name

Net            == "hive-net"             \* CONFIG.network_name
Pod            == "hive-opensearch-pod"
Volume         == "hive-opensearch-data"
NodeImage      == "docker.io/opensearchproject/opensearch:latest"
DashImage      == "docker.io/opensearchproject/opensearch-dashboards:latest"
NatsImage      == "docker.io/library/nats:latest"
CollectorImage == "hive-log-collector:image"

BootWait      == 15    \* OpenSearchManager._BOOT_WAIT, seconds
NatsReadyWait == 5     \* start_all: time.sleep(5)

InfraContainers == {Node, Dash, Nats, Collector}
InfraResources  == {Net, Pod, Volume, NodeImage, DashImage, NatsImage,
                    CollectorImage}

\* ServiceOrchestrator._all, in its order.
Managers == <<"opensearch", "nats", "collector">>

MgrName(m) ==
    CASE m = "opensearch" -> Node
      [] m = "nats"       -> Nats
      [] OTHER            -> Collector

\* The three containers the orchestrator's maps range over.
Trio == {MgrName(Managers[i]) : i \in 1..Len(Managers)}

InfraVerbs == {"create", "start", "stop", "delete"}

(***************************************************************************)
(* The container runtime, as the podman CLI answers                        *)
(***************************************************************************)

\* What "podman create" of a container needs to be present: its image and
\* the pod or network its arguments name (create_args).
CreateNeeds(n) ==
    CASE n = Node -> {NodeImage, Pod}
      [] n = Dash -> {DashImage, Pod}
      [] n = Nats -> {NatsImage, Net}
      [] OTHER    -> {CollectorImage}

\* Invocations whose outcome depends on the world outside the runtime: the
\* registry (pull, build) and the free disk space (_has_disk).
ExternalOps == {"pull", "build", "disk_check"}

\* One state-changing podman invocation op on target n, in the runtime state
\* (ct, res, alias); ext is the outcome of the outside world.  ok = FALSE is
\* a non-zero exit status (PodmanRunner.run raises PodmanError).
podman(op, n, ct, res, alias, ext) ==
    LET out(c, r, a, ok) == [ct |-> c, res |-> r, alias |-> a, ok |-> ok]
        fail == out(ct, res, alias, FALSE)
    IN CASE op \in {"pull", "build"} ->
              IF ext THEN out(ct, res \cup {n}, alias, TRUE) ELSE fail
         [] op = "disk_check" ->
              IF ext THEN out(ct, res, alias, TRUE) ELSE fail
         [] op \in {"network_create", "volume_create"} ->
              IF n \in res THEN fail ELSE out(ct, res \cup {n}, alias, TRUE)
         [] op = "pod_create" ->
              IF n \in res \/ Net \notin res
                THEN fail
                ELSE out(ct, res \cup {n}, alias, TRUE)
         [] op = "create" ->
              IF ct[n] # "absent" \/ ~(CreateNeeds(n) \subseteq res)
                THEN fail
                ELSE out([ct EXCEPT ![n] = "created"], res, alias, TRUE)
         [] op = "connect" ->
              IF ct[n] = "absent" \/ Net \notin res
                THEN fail
                ELSE out(ct, res, alias \cup {n}, TRUE)
         [] op = "start" ->
              IF ct[n] = "absent"
                THEN fail
                ELSE out([ct EXCEPT ![n] = "running"], res, alias, TRUE)
         [] op = "stop" ->
              IF ct[n] = "absent"
                THEN fail
                ELSE out([ct EXCEPT ![n] =
                            IF @ = "running" THEN "exited" ELSE @],
                         res, alias, TRUE)
         [] op = "rm_f" ->
              IF ct[n] = "absent"
                THEN fail
                ELSE out([ct EXCEPT ![n] = "absent"], res, alias \ {n}, TRUE)
         [] op = "inspect_stdout" -> fail
         [] OTHER -> out(ct, res, alias, TRUE)    \* sleep

\* BaseContainerManager.exists: podman container exists <name>.
exists(ct, n) == ct[n] # "absent"

\* A status() that lets the PodmanError of a missing container escape.
status_uncaught(ct, n) == IF ct[n] = "absent" THEN "PodmanError" ELSE ct[n]

\* BaseContainerManager.status: the runtime's state field, "not found" when
\* inspect fails.
status(ct, n) == IF ct[n] = "absent" THEN "not found" ELSE ct[n]

\* The value of a read-only invocation.
probe(op, n, ct, res) ==
    CASE op = "container_exists" -> exists(ct, n)
      [] op = "status_running"   -> status(ct, n) = "running"
      [] OTHER                   -> n \in res   \* network/volume/pod/image exists

(***************************************************************************)
(* Instructions                                                            *)
(***************************************************************************)

Instr(kind, op, n, cond, mode, neg, catch, skip, secs, code, msg) ==
    [kind |-> kind, op |-> op, n |-> n, cond |-> cond, mode |-> mode,
     neg |-> neg, catch |-> catch, skip |-> skip, secs |-> secs,
     code |-> code, msg |-> msg]

\* reg := probe            (mode "set"),  reg := reg \/ probe  (mode "or");
\* neg negates the probe.
Test(op, n, mode, neg) ==
    Instr("test", op, n, "always", mode, neg, FALSE, 0, 0, 0, "")

\* An invocation made when cond holds of reg.
CmdIf(op, n, cond) ==
    Instr("cmd", op, n, cond, "set", FALSE, FALSE, 0, 0, 0, "")
Cmd(op, n) == CmdIf(op, n, "always")

\* An invocation inside try/except Exception: a failure skips the next skip
\* instructions (the rest of the try body) and is swallowed.
Try(op, n, cond, skip) ==
    Instr("cmd", op, n, cond, "set", FALSE, TRUE, skip, 0, 0, "")

Sleep(secs) == Instr("cmd", "sleep", "", "always", "set", FALSE, FALSE, 0, secs, 0, "")

\* return from the method when cond holds of reg.
Ret(cond) == Instr("ret", "", "", cond, "set", FALSE, FALSE, 0, 0, 0, "")

\* The handler answers (raise HTTPException / return {...}) when cond holds.
Reply(cond, code, msg) ==
    Instr("reply", "", "", cond, "set", FALSE, FALSE, 0, 0, code, msg)

\* An answer whose message spells out the names the helper has collected
\* (', '.join(miss)).
ReplyListing(cond, code, msg) ==
    Instr("reply", "", "", cond, "list", FALSE, FALSE, 0, 0, code, msg)

CondHolds(cond, reg) ==
    CASE cond = "if"    -> reg
      [] cond = "ifnot" -> ~reg
      [] OTHER          -> TRUE

\* A block: a method's instructions, and whether it runs in the thread pool.
Block(pool, body) == [pool |-> pool, body |-> body]

(***************************************************************************)
(* common/helpers.py and the three managers                                *)
(***************************************************************************)

NetworkManager_ensure_exists ==
    << Test("network_exists", Net, "set", FALSE),
       CmdIf("network_create", Net, "ifnot") >>

NetworkManager_connect(n) == << Cmd("connect", n) >>

ImageManager_ensure_pulled(image) == << Cmd("pull", image) >>

ImageManager_ensure_built(tag) ==
    << Test("image_exists", tag, "set", FALSE),
       CmdIf("build", tag, "ifnot") >>

\* A create that issues "podman create" before it runs pre_create.
BaseContainerManager_create_first(n, pre_create, post_create) ==
    << Test("container_exists", n, "set", FALSE), Ret("if") >>
    \o << Cmd("create", n) >> \o pre_create \o post_create

BaseContainerManager_create(n, pre_create, post_create) ==
    << Test("container_exists", n, "set", FALSE), Ret("if") >>
    \o pre_create \o << Cmd("create", n) >> \o post_create

BaseContainerManager_start(n) == << Cmd("start", n) >>

BaseContainerManager_stop(n) == << Cmd("stop", n) >>

BaseContainerManager_delete(n) ==
    << Test("container_exists", n, "set", TRUE), Ret("if"),
       Cmd("rm_f", n) >>

\* pre_create: the volume is created when "podman volume exists" fails.
OpenSearchManager_ensure_volume ==
    << Test("volume_exists", Volume, "set", FALSE),
       CmdIf("volume_create", Volume, "ifnot") >>

\* pre_create: the pod is created when "podman pod exists" fails.
OpenSearchManager_ensure_pod ==
    << Test("pod_exists", Pod, "set", FALSE),
       CmdIf("pod_create", Pod, "ifnot") >>

OpenSearchManager_pre_create ==
    << Cmd("disk_check", "") >>
    \o NetworkManager_ensure_exists
    \o ImageManager_ensure_pulled(NodeImage)
    \o ImageManager_ensure_pulled(DashImage)
    \o OpenSearchManager_ensure_volume
    \o OpenSearchManager_ensure_pod

OpenSearchManager_post_create ==
    << Test("container_exists", Dash, "set", FALSE), Ret("if"),
       Cmd("create", Dash) >>

OpenSearchManager_start ==
    BaseContainerManager_start(Node)
    \o << Sleep(BootWait), Cmd("start", Dash) >>

OpenSearchManager_stop ==
    << Cmd("stop", Dash) >> \o BaseContainerManager_stop(Node)

\* runner.run(..., capture_output=True) returns None, so result.stdout
\* raises inside the try and the stop of the dashboard is never reached.
OpenSearchManager_delete ==
    << Try("inspect_stdout", Dash, "always", 1),
       Try("stop", Dash, "always", 0),
       Try("rm_f", Dash, "always", 0) >>
    \o BaseContainerManager_delete(Node)

NatsServerManager_pre_create ==
    NetworkManager_ensure_exists \o ImageManager_ensure_pulled(NatsImage)

NatsServerManager_post_create == NetworkManager_connect(Nats)

NatsServerManager_create ==
    BaseContainerManager_create(Nats, NatsServerManager_pre_create,
                                NatsServerManager_post_create)

LogCollectorManager_pre_create ==
    NetworkManager_ensure_exists \o ImageManager_ensure_built(CollectorImage)

LogCollectorManager_post_create == NetworkManager_connect(Collector)

\* m.pre_create() and m.post_create() for a member m of _all.
pre_create(m) ==
    CASE m = "opensearch" -> OpenSearchManager_pre_create
      [] m = "nats"       -> NatsServerManager_pre_create
      [] OTHER            -> LogCollectorManager_pre_create

post_create(m) ==
    CASE m = "opensearch" -> OpenSearchManager_post_create
      [] m = "nats"       -> NatsServerManager_post_create
      [] OTHER            -> LogCollectorManager_post_create

\* m.<method>() for a member m of _all.
Method(m, method) ==
    CASE method = "create" ->
           ( CASE m = "opensearch" ->
                    BaseContainerManager_create(Node,
                        OpenSearchManager_pre_create,
                        OpenSearchManager_post_create)
               [] m = "nats" -> NatsServerManager_create
               [] OTHER ->
                    BaseContainerManager_create(Collector,
                        LogCollectorManager_pre_create,
                        LogCollectorManager_post_create) )
      [] method = "start" ->
           IF m = "opensearch" THEN OpenSearchManager_start
                               ELSE BaseContainerManager_start(MgrName(m))
      [] method = "stop" ->
           IF m = "opensearch" THEN OpenSearchManager_stop
                               ELSE BaseContainerManager_stop(MgrName(m))
      [] OTHER ->
           IF m = "opensearch" THEN OpenSearchManager_delete
                               ELSE BaseContainerManager_delete(MgrName(m))

\* The ensure operations of the resource managers, one per kind of resource.
EnsureKinds == {"network", "volume", "pod", "image_pulled", "image_built"}

Ensure(kind) ==
    CASE kind = "network"      -> NetworkManager_ensure_exists
      [] kind = "volume"       -> OpenSearchManager_ensure_volume
      [] kind = "pod"          -> OpenSearchManager_ensure_pod
      [] kind = "image_pulled" -> ImageManager_ensure_pulled(NodeImage)
      [] OTHER                 -> ImageManager_ensure_built(CollectorImage)

(***************************************************************************)
(* ServiceOrchestrator                                                     *)
(***************************************************************************)

reversed(seq) == [i \in 1..Len(seq) |-> seq[Len(seq) + 1 - i]]

\* if m.status() != "running": m.start()
start_unless_running(m) ==
    Block(TRUE, << Test("status_running", MgrName(m), "set", FALSE),
                   Ret("if") >> \o Method(m, "start"))

\* if m.status() == "running": m.stop()
stop_if_running(m) ==
    Block(TRUE, << Test("status_running", MgrName(m), "set", TRUE),
                   Ret("if") >> \o Method(m, "stop"))

\* A create_all that walks _all backwards.
create_all_reversed ==
    [i \in 1..Len(Managers) |->
        Block(TRUE, Method(reversed(Managers)[i], "create"))]

create_all == [i \in 1..Len(Managers) |-> Block(TRUE, Method(Managers[i], "create"))]

\* A start_all that starts the collector before it sleeps.
start_all_collector_first ==
    << start_unless_running("opensearch"),
       start_unless_running("nats"),
       start_unless_running("collector"),
       Block(TRUE, << Sleep(NatsReadyWait) >>) >>

start_all ==
    << start_unless_running("opensearch"),
       start_unless_running("nats"),
       Block(TRUE, << Sleep(NatsReadyWait) >>),
       start_unless_running("collector") >>

\* A stop_all that walks _all in its own order.
stop_all_forward ==
    [i \in 1..Len(Managers) |-> stop_if_running(Managers[i])]

stop_all ==
    [i \in 1..Len(Managers) |-> stop_if_running(reversed(Managers)[i])]

delete_all ==
    [i \in 1..Len(Managers) |->
        Block(TRUE, Method(reversed(Managers)[i], "delete"))]

\* reg := any(f(m) for m in _all), every member probed (the maps are built
\* whole before any/if looks at them).
AnyOf(op, neg) ==
    [i \in 1..Len(Managers) |->
        Test(op, MgrName(Managers[i]), IF i = 1 THEN "set" ELSE "or", neg)]

any_exists  == AnyOf("container_exists", FALSE)
any_running == AnyOf("status_running", FALSE)
missing     == AnyOf("container_exists", TRUE)     \* reg: the list is not empty
not_running == AnyOf("status_running", TRUE)       \* reg: the list is not empty

(***************************************************************************)
(* log_manager_router.py                                                   *)
(***************************************************************************)

create_services ==
    << Block(FALSE, any_exists \o << Reply("if", 400,
          "Required containers already exist. Delete them before creating again.") >>) >>
    \o create_all
    \o << Block(FALSE, << Reply("always", 200, "Containers created successfully") >>) >>

start_services ==
    << Block(FALSE,
          missing \o << ReplyListing("if", 400,
                "Containers not found: <names>. Create them first.") >>
          \o not_running \o << Reply("ifnot", 200, "Containers already running") >>) >>
    \o start_all
    \o << Block(FALSE, << Reply("always", 200, "Containers started successfully") >>) >>

\* A stop_services that runs stop_all whenever nothing is missing.
stop_services_always ==
    << Block(FALSE,
          missing \o << Reply("if", 400, "Containers do not exist, nothing to stop.") >>) >>
    \o stop_all
    \o << Block(FALSE, << Reply("always", 200, "Containers stopped successfully") >>) >>

stop_services ==
    << Block(FALSE,
          missing \o << Reply("if", 400, "Containers do not exist, nothing to stop.") >>
          \o any_running \o << Reply("ifnot", 200, "Containers already stopped") >>) >>
    \o stop_all
    \o << Block(FALSE, << Reply("always", 200, "Containers stopped successfully") >>) >>

delete_services ==
    << Block(FALSE,
          missing \o << Reply("if", 400, "Containers do not exist, nothing to delete.") >>
          \o any_running \o << Reply("if", 400,
                "Containers are running. Stop them before deletion.") >>) >>
    \o delete_all
    \o << Block(FALSE, << Reply("always", 200, "Containers deleted successfully") >>) >>

Handler(verb) ==
    CASE verb = "create" -> create_services
      [] verb = "start"  -> start_services
      [] verb = "stop"   -> stop_services
      [] OTHER           -> delete_services

(***************************************************************************)
(* Execution                                                               *)
(***************************************************************************)

\* A request slot.  m = "" for a request to the router, and the manager for
\* a direct call of one manager method.  trace is the sequence of
\* invocations the request has issued: <<op, target, seconds>> for a command
\* and <<op, target, 1 or 0>> for a probe and its answer.  hits is the list a
\* map-building helper (missing, not_running) has collected, names the
\* container names the response message spells out.
IdleInSlot ==
    [st |-> "idle", verb |-> "", m |-> "", blk |-> 0, pc |-> 0,
     reg |-> FALSE, hits |-> {}, onLoop |-> FALSE, trace |-> <<>>,
     pre |-> "", code |-> 0, msg |-> "", names |-> {}]

Program(sl) ==
    IF sl.m = "" THEN Handler(sl.verb)
    ELSE IF sl.m = "ensure" THEN << Block(TRUE, Ensure(sl.verb)) >>
    ELSE << Block(TRUE, Method(sl.m, sl.verb)) >>

\* The slot after one instruction with outcome flow.
Advance(sl, prog, flow, skip, reg, trace, code, msg) ==
    LET body == prog[sl.blk].body
        base == [sl EXCEPT !.reg = reg, !.trace = trace]
        finish(c, t) == [base EXCEPT !.st = "done", !.onLoop = FALSE,
                                     !.code = c, !.msg = t]
        enter(b) == IF b > Len(prog)
                      THEN finish(0, "")
                      ELSE [base EXCEPT !.blk = b, !.pc = 1,
                                        !.onLoop = ~prog[b].pool]
        goto(p) == IF p > Len(body)
                     THEN enter(sl.blk + 1)
                     ELSE [base EXCEPT !.pc = p, !.onLoop = ~prog[sl.blk].pool]
    IN CASE flow = "next"   -> goto(sl.pc + 1 + skip)
         [] flow = "return" -> enter(sl.blk + 1)
         [] flow = "reply"  -> finish(code, msg)
         [] OTHER           -> finish(500, "PodmanError")     \* flow = "raise"

\* Only one handler at a time runs on the event loop; pool blocks run
\* whenever their thread is scheduled.
MayStep(s) ==
    LET sl == inSlot[s]
    IN /\ sl.st = "running"
       /\ ~Program(sl)[sl.blk].pool =>
              \A o \in InSlots \ {s} : ~inSlot[o].onLoop

\* The slot and the runtime after instruction ins of slot s: raw is what its
\* probe saw, r what its invocation did.
Execute(s, sl, prog, ins, raw, runs, r) ==
    LET v == (raw # ins.neg)
        flow ==
            CASE ins.kind = "test" -> "next"
              [] ins.kind = "ret" ->
                   IF CondHolds(ins.cond, sl.reg) THEN "return" ELSE "next"
              [] ins.kind = "reply" ->
                   IF CondHolds(ins.cond, sl.reg) THEN "reply" ELSE "next"
              [] OTHER ->
                   IF r.ok \/ ins.catch THEN "next" ELSE "raise"
        skip == IF runs /\ ~r.ok /\ ins.catch THEN ins.skip ELSE 0
        reg == IF ins.kind # "test" THEN sl.reg
               ELSE IF ins.mode = "or" THEN sl.reg \/ v ELSE v
        hit == IF v THEN {ins.n} ELSE {}
        hits == IF ins.kind # "test" THEN sl.hits
                ELSE IF ins.mode = "or" THEN sl.hits \cup hit ELSE hit
        names == IF flow = "reply" /\ ins.mode = "list" THEN sl.hits ELSE {}
        trace ==
            CASE ins.kind = "test" ->
                   Append(sl.trace, <<ins.op, ins.n, IF raw THEN 1 ELSE 0>>)
              [] runs -> Append(sl.trace, <<ins.op, ins.n, ins.secs>>)
              [] OTHER -> sl.trace
    IN /\ inCt' = r.ct
       /\ inRes' = r.res
       /\ inAlias' = r.alias
       /\ inSlot' = [inSlot EXCEPT ![s] =
             Advance([sl EXCEPT !.hits = hits, !.names = names],
                     prog, flow, skip, reg, trace, ins.code, ins.msg)]

\* Instruction ins of slot s: a probe reads the runtime, an invocation whose
\* condition holds changes it, and one that reaches outside the host may fail.
Instruction(s, sl, prog, ins) ==
    LET runs == ins.kind = "cmd" /\ CondHolds(ins.cond, sl.reg)
    IN \E ext \in IF runs /\ ins.op \in ExternalOps THEN BOOLEAN ELSE {TRUE} :
          Execute(s, sl, prog, ins,
                  ins.kind = "test" /\ probe(ins.op, ins.n, inCt, inRes),
                  runs,
                  IF runs
                    THEN podman(ins.op, ins.n, inCt, inRes, inAlias, ext)
                    ELSE [ok |-> TRUE, ct |-> inCt, res |-> inRes,
                          alias |-> inAlias])

\* Slot s executes its next instruction.
Step(s) ==
    /\ MayStep(s)
    /\ Instruction(s, inSlot[s], Program(inSlot[s]),
                   Program(inSlot[s])[inSlot[s].blk].body[inSlot[s].pc])

\* The lowest idle slot takes the next request.
FreeInSlot(s) ==
    /\ inReqs < MaxInfraReqs
    /\ inSlot[s].st = "idle"
    /\ \A o \in InSlots : o < s => inSlot[o].st # "idle"

\* A client sends POST /create, /start, /stop or DELETE /delete.
request(s, verb) ==
    /\ FreeInSlot(s)
    /\ inSlot' = [inSlot EXCEPT ![s] =
                    [IdleInSlot EXCEPT !.st = "running", !.verb = verb,
                                       !.blk = 1, !.pc = 1]]
    /\ inReqs' = inReqs + 1
    /\ UNCHANGED <<inCt, inRes, inAlias, mgLast>>
    /\ UNCHANGED notIN

\* POST /create: the handler's next instruction.
create_services_step(s) ==
    /\ inSlot[s].m = ""
    /\ inSlot[s].verb = "create"
    /\ Step(s)
    /\ UNCHANGED <<inReqs, mgLast>>
    /\ UNCHANGED notIN

\* POST /start: the handler's next instruction.
start_services_step(s) ==
    /\ inSlot[s].m = ""
    /\ inSlot[s].verb = "start"
    /\ Step(s)
    /\ UNCHANGED <<inReqs, mgLast>>
    /\ UNCHANGED notIN

\* POST /stop: the handler's next instruction.
stop_services_step(s) ==
    /\ inSlot[s].m = ""
    /\ inSlot[s].verb = "stop"
    /\ Step(s)
    /\ UNCHANGED <<inReqs, mgLast>>
    /\ UNCHANGED notIN

\* DELETE /delete: the handler's next instruction.
delete_services_step(s) ==
    /\ inSlot[s].m = ""
    /\ inSlot[s].verb = "delete"
    /\ Step(s)
    /\ UNCHANGED <<inReqs, mgLast>>
    /\ UNCHANGED notIN

\* The response leaves; the slot is free again.
respond(s) ==
    /\ inSlot[s].st = "done"
    /\ inSlot[s].m = ""
    /\ inSlot' = [inSlot EXCEPT ![s] = IdleInSlot]
    /\ UNCHANGED <<inCt, inRes, inAlias, inReqs, mgLast>>
    /\ UNCHANGED notIN

(***************************************************************************)
(* One caller of the managers' methods, one call at a time                 *)
(***************************************************************************)

NoCall == [m |-> "", method |-> "", ok |-> FALSE, pre |-> ""]

\* The caller calls m.<method>().
call(m, method) ==
    /\ inSlot[1].st = "idle"
    /\ inSlot' = [inSlot EXCEPT ![1] =
                    [IdleInSlot EXCEPT !.st = "running", !.verb = method,
                                       !.m = m, !.blk = 1, !.pc = 1,
                                       !.pre = status(inCt, MgrName(m))]]
    /\ UNCHANGED <<inCt, inRes, inAlias, inReqs, mgLast>>
    /\ UNCHANGED notIN

\* The caller calls the ensure operation of one kind of resource.
ensure(kind) ==
    /\ inSlot[1].st = "idle"
    /\ inSlot' = [inSlot EXCEPT ![1] =
                    [IdleInSlot EXCEPT !.st = "running", !.verb = kind,
                                       !.m = "ensure", !.blk = 1, !.pc = 1]]
    /\ UNCHANGED <<inCt, inRes, inAlias, inReqs, mgLast>>
    /\ UNCHANGED notIN

\* The method called runs its next invocation.
method_step ==
    /\ inSlot[1].m # ""
    /\ Step(1)
    /\ UNCHANGED <<inReqs, mgLast>>
    /\ UNCHANGED notIN

\* The invocation the method is about to make exits with a non-zero status
\* and has changed nothing: PodmanRunner.run raises PodmanError.
invocation_fails ==
    LET sl  == inSlot[1]
        ins == Program(sl)[sl.blk].body[sl.pc]
    IN /\ sl.st = "running"
       /\ sl.m # ""
       /\ ins.kind = "cmd" /\ ins.op # "sleep" /\ CondHolds(ins.cond, sl.reg)
       /\ Execute(1, sl, Program(sl), ins, FALSE, TRUE,
                  [ok |-> FALSE, ct |-> inCt, res |-> inRes, alias |-> inAlias])
       /\ UNCHANGED <<inReqs, mgLast>>
       /\ UNCHANGED notIN

\* The method returns, or its exception reaches the caller.
return ==
    /\ inSlot[1].st = "done"
    /\ inSlot[1].m # ""
    /\ mgLast' = [m |-> inSlot[1].m, method |-> inSlot[1].verb,
                  ok |-> inSlot[1].code = 0, pre |-> inSlot[1].pre]
    /\ inSlot' = [inSlot EXCEPT ![1] = IdleInSlot]
    /\ UNCHANGED <<inCt, inRes, inAlias, inReqs>>
    /\ UNCHANGED notIN

\* Nothing of the log infrastructure exists yet.
FreshRuntime ==
    /\ inCt = [n \in InfraContainers |-> "absent"]
    /\ inRes = {}
    /\ inAlias = {}

\* What a completed create_all leaves in the runtime (the runtime outlives
\* the API process).
CreatedRuntime ==
    /\ inCt = [n \in InfraContainers |-> "created"]
    /\ inRes = InfraResources
    /\ inAlias = {Nats, Collector}

IdleIN ==
    /\ inSlot = [s \in InSlots |-> IdleInSlot]
    /\ inReqs = 0
    /\ mgLast = NoCall

InitINVars == (FreshRuntime \/ CreatedRuntime) /\ IdleIN

RestIN == FreshRuntime /\ IdleIN

(***************************************************************************)
(* SPECIFICATIONS                                                          *)
(***************************************************************************)

\* The honeypot manager API at rest, for the specifications of the other
\* processes.
RestHP == InitHPVars /\ hpEuid = 1000

InitLC == InitLCVars /\ RestHP /\ RestIN

NextLC ==
    \/ \E m \in MsgIds, p \in Payloads : publish(m, p)
    \/ \E m \in MsgIds : deliver(m)
    \/ message_handler_decode
    \/ \E o \in IndexOutcomes : insert_into_opensearch(o)
    \/ message_handler_ack

SpecLC == InitLC /\ [][NextLC]_vars

\* The log collector process and its restarts.
NextRestart ==
    \/ \E m \in MsgIds, p \in Payloads : publish(m, p)
    \/ \E m \in MsgIds : deliver(m)
    \/ message_handler_decode
    \/ \E o \in IndexOutcomes : insert_into_opensearch(o)
    \/ message_handler_ack
    \/ \E o \in {"ok", "ConnectionError"} : setup_opensearch(o)

SpecRestart == InitLC /\ [][NextRestart]_vars

\* The collector's process from its start on, next to one publisher.
NextBoot ==
    \/ collector_starts
    \/ \E o \in SetupOutcomes : setup_indices_delete(o)
    \/ \E o \in SetupOutcomes : setup_put_index_template(o)
    \/ \E o \in SetupOutcomes : setup_indices_create(o)
    \/ main_ensure_stream
    \/ main_subscribe
    \/ publisher_connect
    \/ \E m \in BootMsgs, p \in Payloads : publisher_publish(m, p)
    \/ \E m \in BootMsgs : subscription_delivers(m)
    \/ handler_decodes
    \/ \E o \in IndexOutcomes : handler_indexes(o)
    \/ handler_acks

SpecBoot == InitLC /\ [][NextBoot]_vars

\* The log collector handling documents of any content.
NextEnrich ==
    \/ \E entry \in TimeFields, exit \in TimeFields, ans \in GeoAnswers :
          message_handler_enrich(entry, exit, ans)
    \/ \E o \in IndexOutcomes : index_document(o)
    \/ ack_document

SpecEnrich == InitLC /\ [][NextEnrich]_vars

InitHP == InitHPVars /\ InitLCVars /\ RestIN

NextHP ==
    \/ \E s \in Slots, t \in ReqTypes, p \in Ports : submit_create(s, t, p)
    \/ \E s \in Slots, v \in Verbs, n \in Names : submit_do(s, v, n)
    \/ \E s \in Slots : create(s)
    \/ \E s \in Slots : do(s)
    \/ \E s \in Slots : reply(s)
    \/ \E p \in Ports : attacker_connect(p)
    \/ \E p \in Ports : attacker_disconnect(p)

SpecHP == InitHP /\ [][NextHP]_vars

\* The honeypot manager API receiving create requests for any integer port.
NextPorts ==
    \/ \E s \in Slots, t \in Types, p \in AnyPorts : submit_create(s, t, p)
    \/ \E s \in Slots : create(s)
    \/ \E s \in Slots : reply(s)

SpecPorts == InitHP /\ [][NextPorts]_vars

\* The lifecycle methods of a Honeypot, called with any outcome of the
\* runtime call.
NextLifecycle ==
    \/ \E verb \in Verbs, port \in LifecyclePorts, raised \in BOOLEAN,
          msg \in MessagesOf(MaxPhrases) :
          lifecycle_call(verb, port, raised, msg)
    \/ lifecycle_return

SpecLifecycle == InitLC /\ [][NextLifecycle]_vars

\* Reads of the catalog while the file changes underneath.
NextCatalog ==
    \/ \E kind \in {"file", "unreadable"}, mtime \in Mtimes,
          contents \in Catalogs : catalog_file_set(kind, mtime, contents)
    \/ catalog_file_removed
    \/ load_configs

SpecCatalog == InitLC /\ [][NextCatalog]_vars

InitInfra == InitINVars /\ InitLCVars /\ RestHP

NextInfra ==
    \/ \E s \in InSlots, verb \in InfraVerbs : request(s, verb)
    \/ \E s \in InSlots : create_services_step(s)
    \/ \E s \in InSlots : start_services_step(s)
    \/ \E s \in InSlots : stop_services_step(s)
    \/ \E s \in InSlots : delete_services_step(s)
    \/ \E s \in InSlots : respond(s)

SpecInfra == InitInfra /\ [][NextInfra]_vars

\* One invocation of a start request exits with a non-zero status and has
\* changed nothing: PodmanRunner.run raises PodmanError.
start_invocation_fails ==
    LET sl  == inSlot[1]
        ins == Program(sl)[sl.blk].body[sl.pc]
    IN /\ sl.st = "running"
       /\ sl.m = "" /\ sl.verb = "start"
       /\ ins.kind = "cmd" /\ ins.op # "sleep" /\ CondHolds(ins.cond, sl.reg)
       /\ Execute(1, sl, Program(sl), ins, FALSE, TRUE,
                  [ok |-> FALSE, ct |-> inCt, res |-> inRes, alias |-> inAlias])
       /\ UNCHANGED <<inReqs, mgLast>>
       /\ UNCHANGED notIN

\* Start requests sent one after the other to a runtime whose invocations
\* may fail.
NextStart ==
    \/ request(1, "start")
    \/ start_services_step(1)
    \/ start_invocation_fails
    \/ respond(1)

SpecStart == InitInfra /\ [][NextStart]_vars

InitMgr == InitINVars /\ InitLCVars /\ RestHP

NextMgr ==
    \/ \E i \in 1..Len(Managers), method \in InfraVerbs :
          call(Managers[i], method)
    \/ method_step
    \/ return

SpecMgr == InitMgr /\ [][NextMgr]_vars

\* One caller of the managers' create(), with a runtime whose invocations
\* may fail.
NextFaulty ==
    \/ \E i \in 1..Len(Managers) : call(Managers[i], "create")
    \/ method_step
    \/ invocation_fails
    \/ return

SpecFaulty == InitMgr /\ [][NextFaulty]_vars

InitEnsure == RestIN /\ InitLCVars /\ RestHP

\* One caller of the ensure operations, one call at a time.
NextEnsure ==
    \/ \E kind \in EnsureKinds : ensure(kind)
    \/ method_step
    \/ return

SpecEnsure == InitEnsure /\ [][NextEnsure]_vars

(***************************************************************************)
(* Log collector: properties                                               *)
(***************************************************************************)

\* C1: every message delivered to the collector is either present in the
\* index or still held by the stream for redelivery (the handler acknowledges
\* only what it has indexed).
C1_DeliveredIndexedOrPending ==
    \A m \in MsgIds :
        (lcDeliveries[m] > 0 /\ lcCur # m) =>
            (lcIndex[m] > 0 \/ m \in lcStream)

\* C8: a message whose payload fails JSON decoding is never acknowledged and
\* no document is indexed for it; it stays in the stream.
C8_BadJsonNotAckedNotIndexed ==
    \A m \in MsgIds :
        (lcPayload[m] # "none" /\ ~json_loads_ok(lcPayload[m])) =>
            (m \notin lcAcked /\ lcIndex[m] = 0 /\ m \in lcStream)

\* C8 witness: an undecodable message was delivered and its handler returned.
C8_Witness ==
    \E m \in MsgIds :
        /\ lcPayload[m] = "garbage"
        /\ lcDeliveries[m] > 0
        /\ lcPc = "idle"

\* The host port a honeypot container was created for.
HostPort(c) == IntOfString(c.labels.hive_port)

\* C17: every honeypot container has a host port in 1..65535, and one below
\* 1024 only when the API process is elevated; a create that asks for
\* anything else is refused and creates nothing.
C17_PortRange ==
    /\ \A c \in hpContainers :
          /\ HostPort(c) \in 1..65535
          /\ HostPort(c) < PrivilegedBelow => hpEuid = 0
    /\ \A s \in Slots :
          ( /\ hpSlot[s].st = "done" /\ hpSlot[s].verb = "create"
            /\ \/ hpSlot[s].rport \notin 1..65535
               \/ hpSlot[s].rport < PrivilegedBelow /\ hpEuid # 0 ) =>
          hpSlot[s].resp.code # 201

\* C18: every honeypot container carries the labels service, hive.type,
\* hive.port and owner and no other, service being hive-honeypot-manager and
\* hive.type and hive.port being the type and host port it was created with.
C18_CanonicalLabels ==
    \A c \in hpContainers :
        /\ DOMAIN c.labels = {"service", "hive_type", "hive_port", "owner"}
        /\ c.labels.service = ServiceLabel[2]
        /\ \E t \in Types, q \in Ports :
              /\ c.name = HoneypotName(t, q)
              /\ c.labels.hive_type = t
              /\ c.labels.hive_port = ToString(q)

\* C19: no two honeypot containers publish the same host port: the port
\* mappings of any two of them are disjoint.
C19_NoSharedHostPort ==
    \A c1 \in hpContainers, c2 \in hpContainers :
        c1.name # c2.name => c1.ports \cap c2.ports = {}

\* The status as presented externally: running is shown as started.
render(st) == IF st = "running" THEN "started" ELSE st

\* C20: for every type t, list_by_type(t) returns exactly the members of
\* list_all whose type is t, and for every external status s of created,
\* started and exited, list_by_status(s) returns exactly the members whose
\* rendered status is s.
C20_FilterEquivalence ==
    LET all == list_all(hpContainers).body
    IN /\ \A t \in Types :
             /\ list_honeypots_by_type(hpContainers, t).code = 200
             /\ list_honeypots_by_type(hpContainers, t).body =
                    {hp \in all : hp.type = t}
       /\ \A st \in valid_statuses :
             /\ list_honeypots_by_status(hpContainers, st).code = 200
             /\ list_honeypots_by_status(hpContainers, st).body =
                    {hp \in all : render(hp.status) = st}

C26_IndexSurvivesRestart ==
    [][ \A m \in lcAcked : lcIndex[m] > 0 => lcIndex'[m] > 0 ]_vars

\* Whole seconds from entry to exit, rounded down.
FloorSeconds(d) == (d.time_of_exit.ms - d.time_of_entry.ms) \div 1000

\* C22: every indexed document that carries duration_of_attack and whose
\* two timestamps parse has duration_of_attack = floor(exit - entry) in
\* whole seconds.
C22_DurationIsFloor ==
    \A d \in enIndexed :
        ( /\ d.has_duration
          /\ d.time_of_entry.k = "iso" /\ d.time_of_exit.k = "iso" ) =>
        d.duration_of_attack = FloorSeconds(d)

\* The lookup of the document failed or gave coordinates outside the ranges.
LookupFailed(d) ==
    \/ d.ans.raises # "none"
    \/ ~Between(-90, d.ans.lat, 90)
    \/ ~Between(-180, d.ans.lon, 180)

\* What C23 asks of a document.
GeoSound(d) ==
    /\ d.has_location => /\ -90 <= d.lat /\ d.lat <= 90
                         /\ -180 <= d.lon /\ d.lon <= 180
    /\ LookupFailed(d) => ~d.has_location /\ ~d.has_country

Handled(s) == hpSlot[s].st = "pending" /\ hpSlot'[s].st = "done"

\* C2: of two create requests with the same (type, port) that are in flight
\* together, exactly one succeeds (201), the other fails as
\* HoneypotAlreadyExists (409), and exactly one container of that name exists.
C2_ConcurrentCreateOneWinner ==
    \A s1 \in Slots, s2 \in Slots :
        ( /\ s1 # s2
          /\ hpSlot[s1].st = "done" /\ hpSlot[s2].st = "done"
          /\ hpSlot[s1].verb = "create" /\ hpSlot[s2].verb = "create"
          /\ hpSlot[s1].conc /\ hpSlot[s2].conc
          /\ hpSlot[s1].resp.code = 201 ) =>
        /\ hpSlot[s2].resp.code = 409
        /\ hpSlot[s2].raised = "HoneypotExistsError"
        /\ Cardinality({c \in hpContainers :
               c.name = HoneypotName(hpSlot[s1].rtype, hpSlot[s1].rport)}) = 1

\* C3: no two honeypot containers share a name, nor a (type, host port)
\* pair.
C3_UniqueTypePort ==
    \A c1 \in hpContainers, c2 \in hpContainers :
        ( \/ c1.name = c2.name
          \/ /\ c1.labels.hive_type = c2.labels.hive_type
             /\ c1.labels.hive_port = c2.labels.hive_port ) => c1 = c2

\* C3 witness: two honeypots exist and a create for an existing (type, port)
\* has been refused.
C3_Witness ==
    /\ Cardinality(hpContainers) >= 2
    /\ \E s \in Slots : /\ hpSlot[s].st = "done"
                        /\ hpSlot[s].verb = "create"
                        /\ hpSlot[s].pre # "none"
                        /\ hpSlot[s].resp.code # 201

\* C4: a delete of a running honeypot is refused with the container-busy
\* error and removes nothing; no step removes a container that is running.
C4_DeleteRunningRefused ==
    [][ /\ \A c \in hpContainers :
              c.status = "running" => RtExists(hpContainers', c.name)
        /\ \A s \in Slots :
              ( /\ Handled(s)
                /\ hpSlot[s].verb = "delete"
                /\ get_honeypot_details(hpContainers,
                                        hpSlot[s].rname).status = "running" ) =>
              /\ hpSlot'[s].raised = "HoneypotContainerError"
              /\ hpSlot'[s].resp.code = 500
              /\ hpSlot'[s].resp.detail = BusyMessage
              /\ hpContainers' = hpContainers ]_vars

\* C4 witness: a delete of a running honeypot has been refused and the
\* honeypot is still running.
C4_Witness ==
    \E s \in Slots :
        /\ hpSlot[s].st = "done"
        /\ hpSlot[s].verb = "delete"
        /\ hpSlot[s].pre = "running"
        /\ hpSlot[s].resp.code = 500
        /\ get_honeypot_details(hpContainers, hpSlot[s].rname).status = "running"

\* C5: a stop or delete of a honeypot whose host port has an ESTABLISHED
\* session is answered 423 (ActiveConnections) and changes no container.
C5_ActiveConnectionsBlock ==
    [][ \A s \in Slots :
          ( /\ Handled(s)
            /\ hpSlot[s].verb \in {"stop", "delete"}
            /\ get_honeypot_details(hpContainers, hpSlot[s].rname).port
                   \in hpEstablished ) =>
          /\ hpSlot'[s].resp.code = 423
          /\ hpContainers' = hpContainers ]_vars

\* C10: a create repeated after the same create was answered 201 is answered
\* 409 with a detail holding "already exists" and the port, and the existing
\* container stays as it is.
C10_DuplicateCreate409 ==
    [][ \A s \in Slots :
          ( /\ Handled(s)
            /\ hpSlot[s].verb = "create"
            /\ hpSlot[s].after201 ) =>
          /\ hpSlot'[s].resp.code = 409
          /\ Contains(hpSlot'[s].resp.detail, "already exists")
          /\ Contains(hpSlot'[s].resp.detail, ToString(hpSlot[s].rport))
          /\ hpContainers' = hpContainers ]_vars

\* C24: a failed create is answered with the status of its failure kind:
\* 404 for an unknown type, 400 for a privileged port asked for by a
\* process that is not elevated, 409 for a honeypot that already exists.
C24_FailureKindStatus ==
    [][ \A s \in Slots :
          ( Handled(s) /\ hpSlot[s].verb = "create" ) =>
          LET t == hpSlot[s].rtype
              p == hpSlot[s].rport
              code == hpSlot'[s].resp.code
          IN /\ ~type_exists(t) => code = 404
             /\ (type_exists(t) /\ ~validate_port(p, hpEuid)) => code = 400
             /\ ( /\ type_exists(t) /\ validate_port(p, hpEuid)
                  /\ honeypot_exist(hpContainers, HoneypotName(t, p)) ) =>
                code = 409 ]_vars

\* The status the honeypot a slot's request names has in the runtime.
TargetStatus(s) == get_honeypot_details(hpContainers, hpSlot[s].rname).status

\* C11: a start of a honeypot that is already running fails (AlreadyRunning)
\* and is not answered as a success.
C11_StartRunningFails ==
    [][ \A s \in Slots :
          ( /\ Handled(s)
            /\ hpSlot[s].verb = "start"
            /\ TargetStatus(s) = "running" ) =>
          /\ hpSlot'[s].raised # "none"
          /\ hpSlot'[s].resp.code # 200 ]_vars

\* C12: a restart succeeds only on a running honeypot and leaves it running;
\* a restart of a created or exited honeypot fails and does not start it.
C12_RestartOnlyRunning ==
    [][ \A s \in Slots :
          ( /\ Handled(s)
            /\ hpSlot[s].verb = "restart"
            /\ TargetStatus(s) # "none" ) =>
          IF TargetStatus(s) = "running"
            THEN hpSlot'[s].resp.code = 200 =>
                   get_honeypot_details(hpContainers', hpSlot[s].rname).status
                       = "running"
            ELSE /\ hpSlot'[s].resp.code # 200
                 /\ get_honeypot_details(hpContainers', hpSlot[s].rname).status
                       = TargetStatus(s) ]_vars

(***************************************************************************)
(* Log infrastructure: properties                                          *)
(***************************************************************************)

\* The position of delete_services' "if orch.any_running()".
AtRunningCheck(sl) ==
    /\ sl.st = "running" /\ sl.m = "" /\ sl.verb = "delete"
    /\ sl.blk = 1
    /\ sl.pc = Len(missing) + 1 + Len(any_running) + 1

\* C6: a delete request that finds one of the search node, the bus or the
\* collector running is answered 400 and removes nothing, and no step removes
\* an infrastructure container while one of the three is running.
C6_NoDeleteWhileRunning ==
    [][ /\ \A s \in InSlots :
              ( /\ AtRunningCheck(inSlot[s])
                /\ inSlot[s].reg
                /\ inSlot'[s] # inSlot[s] ) =>
              /\ inSlot'[s].st = "done"
              /\ inSlot'[s].code = 400
              /\ inCt' = inCt
        /\ (\E n \in InfraContainers : inCt[n] # "absent" /\ inCt'[n] = "absent")
              => \A k \in Trio : inCt[k] # "running" ]_vars

\* The commands of a trace, its probes left out.
IsCommand(e) == e[1] \in {"pull", "build", "disk_check", "network_create",
                          "volume_create", "pod_create", "create", "connect",
                          "start", "stop", "rm_f", "inspect_stdout", "sleep"}
Commands(tr) == SelectSeq(tr, IsCommand)

\* The positions of an invocation in a trace.
Issued(tr, op, n) == {i \in 1..Len(tr) : tr[i][1] = op /\ tr[i][2] = n}

\* The positions of the sleep of secs seconds in a trace.
Slept(tr, secs) == {i \in 1..Len(tr) : tr[i][1] = "sleep" /\ tr[i][3] = secs}

\* C7: in a start_all, the starts of the search cluster are issued before the
\* start of the bus, and the start of the collector is issued only after the
\* sleep that follows the start of the bus.
C7_StartAllOrder ==
    \A s \in InSlots :
        (inSlot[s].m = "" /\ inSlot[s].verb = "start") =>
        LET tr == inSlot[s].trace
            search == Issued(tr, "start", Node) \cup Issued(tr, "start", Dash)
            bus == Issued(tr, "start", Nats)
        IN /\ \A i \in search, j \in bus : i < j
           /\ \A i \in Issued(tr, "start", Collector) :
                 \E w \in Slept(tr, NatsReadyWait) :
                    /\ w < i
                    /\ \A j \in search \cup bus : j < w

\* C7 witness: a start request has started the node, the dashboard and the
\* bus, slept, started the collector, and answered 200.
C7_Witness ==
    \E s \in InSlots :
        /\ inSlot[s].st = "done" /\ inSlot[s].m = ""
        /\ inSlot[s].verb = "start" /\ inSlot[s].code = 200
        /\ Commands(inSlot[s].trace) =
               << <<"start", Node, 0>>, <<"sleep", "", BootWait>>,
                  <<"start", Dash, 0>>, <<"start", Nats, 0>>,
                  <<"sleep", "", NatsReadyWait>>,
                  <<"start", Collector, 0>> >>

\* C9: right after a manager's start has returned, its status() reads
\* "running"; after a stop of the running container has returned, "exited";
\* after a delete has returned, "not found".
C9_StatusRoundTrip ==
    (inSlot[1].st = "idle" /\ mgLast.ok) =>
    LET st == status(inCt, MgrName(mgLast.m))
    IN /\ mgLast.method = "start" => st = "running"
       /\ (mgLast.method = "stop" /\ mgLast.pre = "running") => st = "exited"
       /\ mgLast.method = "delete" => st = "not found"

\* C9 witness: a container that was started and then stopped has been
\* deleted, and its status() reads "not found".
C9_Witness ==
    /\ inSlot[1].st = "idle"
    /\ mgLast.ok /\ mgLast.method = "delete" /\ mgLast.pre = "exited"
    /\ status(inCt, MgrName(mgLast.m)) = "not found"

\* The answer of the latest probe op of n before position i of a trace
\* (-1: there is none).
LastProbe(tr, op, n, i) ==
    LET before == {j \in Issued(tr, op, n) : j < i}
    IN IF before = {} THEN -1
       ELSE tr[CHOOSE j \in before : \A k \in before : k <= j][3]

\* C13: a stop_all issues its stops in the order collector, bus, search
\* cluster, and stops a member only when the status() it has just read of
\* that member is running.
C13_StopAllReverseOrder ==
    \A s \in InSlots :
        (inSlot[s].m = "" /\ inSlot[s].verb = "stop") =>
        LET tr == inSlot[s].trace
            search == Issued(tr, "stop", Node) \cup Issued(tr, "stop", Dash)
        IN /\ \A i \in Issued(tr, "stop", Collector),
                 j \in Issued(tr, "stop", Nats) \cup search : i < j
           /\ \A i \in Issued(tr, "stop", Nats), j \in search : i < j
           /\ \A n \in Trio : \A i \in Issued(tr, "stop", n) :
                 LastProbe(tr, "status_running", n, i) = 1

\* C13 witness: a stop request has stopped the collector, the bus, the
\* dashboard and the node, and answered 200.
C13_Witness ==
    \E s \in InSlots :
        /\ inSlot[s].st = "done" /\ inSlot[s].m = ""
        /\ inSlot[s].verb = "stop" /\ inSlot[s].code = 200
        /\ Commands(inSlot[s].trace) =
               << <<"stop", Collector, 0>>, <<"stop", Nats, 0>>,
                  <<"stop", Dash, 0>>, <<"stop", Node, 0>> >>

\* The member of _all a command works for (0: none of them, the network).
MemberOf(e) ==
    CASE e[2] \in {Node, Dash, NodeImage, DashImage, Volume, Pod} -> 1
      [] e[2] \in {Nats, NatsImage}                                -> 2
      [] e[2] \in {Collector, CollectorImage}                      -> 3
      [] OTHER                                                     -> 0

\* C14: a create_all works member by member in the order search node, bus,
\* collector, one member's commands all before the next member's, and it
\* issues a container create only after it has found or created the network.
C14_CreateAllOrder ==
    \A s \in InSlots :
        (inSlot[s].m = "" /\ inSlot[s].verb = "create") =>
        LET tr == Commands(inSlot[s].trace)
            all == inSlot[s].trace
        IN /\ \A i \in 1..Len(tr), j \in 1..Len(tr) :
                 (i < j /\ MemberOf(tr[i]) # 0 /\ MemberOf(tr[j]) # 0)
                     => MemberOf(tr[i]) <= MemberOf(tr[j])
           /\ \A n \in InfraContainers : \A i \in Issued(all, "create", n) :
                 \/ LastProbe(all, "network_exists", Net, i) = 1
                 \/ \E j \in Issued(all, "network_create", Net) : j < i

\* C14 witness: a create request has created the network and the four
\* containers and answered 200.
C14_Witness ==
    \E s \in InSlots :
        /\ inSlot[s].st = "done" /\ inSlot[s].m = ""
        /\ inSlot[s].verb = "create" /\ inSlot[s].code = 200
        /\ Issued(inSlot[s].trace, "network_create", Net) # {}
        /\ \A n \in InfraContainers : Issued(inSlot[s].trace, "create", n) # {}

\* The containers a request's probes found to exist.
FoundExisting(tr) == {n \in Trio : Issued(tr, "container_exists", n) # {} /\
                                   LastProbe(tr, "container_exists", n,
                                             Len(tr) + 1) = 1}

\* C15: a POST /create that finds one of the three containers existing is
\* answered 400 with a message that lists the containers that exist, and
\* issues no create.
C15_CreateConflictListed ==
    \A s \in InSlots :
        LET tr == inSlot[s].trace
            checked == SubSeq(tr, 1, Len(any_exists))
        IN ( /\ inSlot[s].m = "" /\ inSlot[s].verb = "create"
             /\ Len(tr) >= Len(any_exists)
             /\ FoundExisting(checked) # {} ) =>
           /\ Commands(tr) = <<>>
           /\ inSlot[s].st = "done" =>
                 /\ inSlot[s].code = 400
                 /\ inSlot[s].names = FoundExisting(checked)

\* The answers (1 or 0) of the probes at positions lo..hi of a trace.
Answers(tr, lo, hi) == {tr[i][3] : i \in lo..hi}

\* C16: a POST /stop that finds one of the three containers missing is
\* answered 400; one that finds all three and none of them running is
\* answered with the already-stopped success message; neither issues a stop.
C16_StopGuards ==
    \A s \in InSlots :
        (inSlot[s].m = "" /\ inSlot[s].verb = "stop") =>
        LET tr == inSlot[s].trace
            k == Len(missing)
            done == inSlot[s].st = "done"
        IN /\ (Len(tr) >= k /\ 0 \in Answers(tr, 1, k)) =>
                 /\ Len(tr) = k
                 /\ done => inSlot[s].code = 400
           /\ ( /\ Len(tr) >= k + Len(any_running)
                /\ Answers(tr, 1, k) = {1}
                /\ Answers(tr, k + 1, k + Len(any_running)) = {0} ) =>
                 /\ Len(tr) = k + Len(any_running)
                 /\ done => /\ inSlot[s].code = 200
                            /\ inSlot[s].msg = "Containers already stopped"

\* C16 witness: a stop request found the three containers, none running, and
\* has been answered.
C16_Witness ==
    \E s \in InSlots :
        /\ inSlot[s].st = "done" /\ inSlot[s].m = "" /\ inSlot[s].verb = "stop"
        /\ Len(inSlot[s].trace) = Len(missing) + Len(any_running)
        /\ Answers(inSlot[s].trace, 1, Len(missing)) = {1}
        /\ Answers(inSlot[s].trace, Len(missing) + 1,
                   Len(missing) + Len(any_running)) = {0}

(***************************************************************************)
(* Resource managers: properties                                           *)
(***************************************************************************)

\* The call in progress repeats the ensure operation that has just succeeded.
Repeated ==
    /\ inSlot[1].m = "ensure"
    /\ mgLast.m = "ensure"
    /\ mgLast.method = inSlot[1].verb
    /\ mgLast.ok

\* C21: an ensure operation called again right after it has succeeded
\* succeeds again and leaves the runtime as the first call left it.
C21_EnsureIdempotent ==
    [][ Repeated => /\ inRes' = inRes
                    /\ inSlot'[1].code = 0 ]_vars

\* The same for the ensure operations that test before they act.
C21_TestedEnsureIdempotent ==
    [][ (Repeated /\ inSlot[1].verb # "image_pulled") =>
            /\ inRes' = inRes
            /\ inSlot'[1].code = 0 ]_vars

(***************************************************************************)
(* Log-infra API: properties of the guards                                 *)
(***************************************************************************)

\* The answer of a handler's guard block in the runtime state ct: the code of
\* the first reply whose condition holds, 0 when the guards let the request
\* through to the orchestrator's batch operation.
RECURSIVE GuardAnswer(_, _, _, _)
GuardAnswer(body, pc, reg, ct) ==
    IF pc > Len(body) THEN 0
    ELSE LET ins == body[pc]
         IN IF ins.kind = "test"
              THEN LET v == (probe(ins.op, ins.n, ct, {}) # ins.neg)
                   IN GuardAnswer(body, pc + 1,
                                  IF ins.mode = "or" THEN reg \/ v ELSE v, ct)
            ELSE IF ins.kind = "reply" /\ CondHolds(ins.cond, reg)
              THEN ins.code
            ELSE GuardAnswer(body, pc + 1, reg, ct)

\* The request verb passes the guards of its handler.
LetThrough(verb, ct) == GuardAnswer(Handler(verb)[1].body, 1, FALSE, ct) = 0

\* Only some of the three containers exist.
Partial(ct) ==
    /\ \E n \in Trio : exists(ct, n)
    /\ \E n \in Trio : ~exists(ct, n)

\* No request is being handled.
NoRequestRunning == \A s \in InSlots : inSlot[s].st # "running"

\* C27: in every state in which only some of the three containers exist and no
\* request is under way, at least one of the four requests passes its
\* handler's guards and so reaches the operation that changes the state.
C27_PartialStateHasWayOut ==
    (Partial(inCt) /\ NoRequestRunning) =>
        \E verb \in InfraVerbs : LetThrough(verb, inCt)

\* In such a state every request is refused with 400.
C27_PartialStateRefusesAll ==
    Partial(inCt) =>
        \A verb \in InfraVerbs :
            GuardAnswer(Handler(verb)[1].body, 1, FALSE, inCt) = 400

\* C28: while a delete request and a start request are both being handled, no
\* step removes one of the three containers that is in the running state.
C28_NoRemovalOfStarted ==
    [][ (\E s, o \in InSlots : /\ inSlot[s].verb = "delete"
                                /\ inSlot[o].verb = "start") =>
            \A n \in Trio : inCt[n] = "running" => inCt'[n] # "absent" ]_vars

\* Two create requests are being handled.
BothCreating(s, o) ==
    /\ s # o
    /\ inSlot[s].m = "" /\ inSlot[s].verb = "create" /\ inSlot[s].st = "running"
    /\ inSlot[o].m = "" /\ inSlot[o].verb = "create" /\ inSlot[o].st = "running"

\* C29: of two create requests handled at the same time at most one is past
\* the guard and in create_all, and neither issues "podman create" for a name
\* the other has already issued it for.
C29_OneCreateAll ==
    [][ \A s, o \in InSlots :
          BothCreating(s, o) =>
              /\ ~(inSlot[s].blk > 1 /\ inSlot[o].blk > 1)
              /\ \A n \in InfraContainers :
                    Issued(inSlot'[s].trace, "create", n)
                        # Issued(inSlot[s].trace, "create", n)
                    => Issued(inSlot[o].trace, "create", n) = {} ]_vars

(***************************************************************************)
(* Container managers: the order inside create()                           *)
(***************************************************************************)

\* The probes and commands a method body can issue.
OpsOf(body) ==
    {<<body[i].op, body[i].n>> :
        i \in {j \in 1..Len(body) : body[j].kind \in {"test", "cmd"}}}

\* C30: a create() that found its container absent issues first what
\* pre_create issues, then at most one "podman create" of its name, then what
\* post_create issues; when it returns normally the create was issued exactly
\* once, right before post_create's first invocation and with pre_create's
\* first invocation right after the existence test.  A create() that found
\* the container existing issues nothing after the existence test.
C30_CreateOrder ==
    LET sl == inSlot[1]
        n  == MgrName(sl.m)
        tr == sl.trace
        at == Issued(tr, "create", n)
    IN (sl.m \in {Managers[i] : i \in 1..Len(Managers)} /\ sl.verb = "create") =>
       /\ sl.pre # "not found" =>
             /\ Len(tr) <= 1
             /\ sl.st = "done" => (Len(tr) = 1 /\ sl.code = 0)
       /\ sl.pre = "not found" =>
             /\ Cardinality(at) <= 1
             /\ \A i \in 2..Len(tr) :
                   /\ (\A j \in at : i < j) =>
                          <<tr[i][1], tr[i][2]>> \in OpsOf(pre_create(sl.m))
                   /\ (\E j \in at : i > j) =>
                          <<tr[i][1], tr[i][2]>> \in OpsOf(post_create(sl.m))
             /\ (sl.st = "done" /\ sl.code = 0) =>
                   /\ Cardinality(at) = 1
                   /\ <<tr[2][1], tr[2][2]>> =
                          <<pre_create(sl.m)[1].op, pre_create(sl.m)[1].n>>
                   /\ \A j \in at :
                         /\ j > 2 /\ j < Len(tr)
                         /\ <<tr[j + 1][1], tr[j + 1][2]>> =
                                <<post_create(sl.m)[1].op, post_create(sl.m)[1].n>>

\* C30 witness: create() of the bus manager on an absent container has
\* returned normally after the pull, the create and the network connect, and
\* a create() of a manager has found its container existing and returned.
C30_Witness ==
    /\ inSlot[1].st = "done" /\ inSlot[1].code = 0
    /\ inSlot[1].m = "nats" /\ inSlot[1].verb = "create"
    /\ inSlot[1].pre = "not found"
    /\ \E i \in Issued(inSlot[1].trace, "pull", NatsImage),
          j \in Issued(inSlot[1].trace, "create", Nats),
          k \in Issued(inSlot[1].trace, "connect", Nats) : i < j /\ j < k
    /\ mgLast.method = "create" /\ mgLast.ok /\ mgLast.pre # "not found"

\* What post_create of manager m leaves behind.
PostCreateHolds(m) ==
    CASE m = "opensearch" -> exists(inCt, Dash)
      [] OTHER            -> MgrName(m) \in inAlias

\* C31: whenever no call is in progress and the container of a manager
\* exists, the effects of the manager's post_create hold.
C31_PostCreateHolds ==
    inSlot[1].st = "idle" =>
        \A i \in 1..Len(Managers) :
            exists(inCt, MgrName(Managers[i])) => PostCreateHolds(Managers[i])

\* The same after a create() that has returned normally.
C31_AfterCreateReturned ==
    (inSlot[1].st = "idle" /\ mgLast.method = "create" /\ mgLast.ok) =>
        PostCreateHolds(mgLast.m)

\* C32: when a start request is answered with a success message, the search
\* node, the bus, the collector and the dashboard are running.
C32_StartedMeansRunning ==
    \A s \in InSlots :
        ( /\ inSlot[s].st = "done" /\ inSlot[s].m = ""
          /\ inSlot[s].verb = "start" /\ inSlot[s].code = 200 ) =>
        \A n \in InfraContainers : inCt[n] = "running"

\* The same for the three containers the start guard looks at.
C32_StartedMeansTrioRunning ==
    \A s \in InSlots :
        ( /\ inSlot[s].st = "done" /\ inSlot[s].m = ""
          /\ inSlot[s].verb = "start" /\ inSlot[s].code = 200 ) =>
        \A n \in Trio : inCt[n] = "running"

(***************************************************************************)
(* Honeypot lifecycle methods: failures of the runtime                     *)
(***************************************************************************)

\* C33: a lifecycle method whose runtime call raised returns True only when
\* it is stop_honeypot and the runtime said the container is not running.
C33_FailuresSurfaced ==
    (lfCall.raised /\ lfCall.result = "True") =>
        /\ lfCall.verb = "stop"
        /\ Contains(Lowered(lfCall.msg), "container not running")

(***************************************************************************)
(* Container managers: delete()                                            *)
(***************************************************************************)

\* delete() of manager m, called by slot 1: when the container did not exist
\* no "podman rm" is issued and the call returns normally; when it existed
\* the call returns normally having issued "podman rm -f" for it, and the
\* container is gone.
DeleteIsRemoveIfExists(m) ==
    LET sl == inSlot[1]
        n  == MgrName(m)
    IN (sl.m = m /\ sl.verb = "delete") =>
       /\ sl.pre = "not found" =>
             /\ \A k \in InfraContainers : Issued(sl.trace, "rm_f", k) = {}
             /\ sl.st = "done" => sl.code = 0
       /\ (sl.pre # "not found" /\ sl.st = "done") =>
             /\ sl.code = 0
             /\ Issued(sl.trace, "rm_f", n) # {}
             /\ ~exists(inCt, n)

\* C34: delete() of each of the three managers removes the container by
\* force when it exists and otherwise issues no removal and returns normally.
C34_DeleteIfExists ==
    \A i \in 1..Len(Managers) : DeleteIsRemoveIfExists(Managers[i])

\* The same for the two managers that inherit BaseContainerManager.delete.
C34_InheritedDelete ==
    DeleteIsRemoveIfExists("nats") /\ DeleteIsRemoveIfExists("collector")

(***************************************************************************)
(* Honeypot manager: discovery                                             *)
(***************************************************************************)

\* C35: every honeypot container the runtime holds (created through the API
\* and not deleted since) is an element of the answer of list_all.
C35_ListAllComplete ==
    \A c \in hpContainers :
        get_honeypot_details(hpContainers, c.name) \in list_all(hpContainers).body

\* list_all answers with the empty list whatever has been created.
C35_ListAllEmpty == list_all(hpContainers).body = {}

(***************************************************************************)
(* Collector boot: properties                                              *)
(***************************************************************************)

\* C36: the index is dropped or created and the template written only by the
\* steps of main that come before the subscription; while the subscription is
\* active no step does any of that, and the number of documents of a message
\* in the index never goes down.
C36_SetupOnlyAtBoot ==
    [][ /\ ( \/ osRun'.exists # osRun.exists
             \/ osRun'.deletes > osRun.deletes
             \/ osRun'.templates > osRun.templates
             \/ osRun'.creates > osRun.creates
             \/ \E m \in MsgIds : lcIndex'[m] < lcIndex[m] )
            => lcBoot \in {"exists", "template", "create"}
        /\ (lcBoot = "subscribed" /\ lcBoot' = "subscribed")
            => /\ osRun' = osRun
               /\ \A m \in MsgIds : lcIndex'[m] >= lcIndex[m] ]_vars

\* C36 witness: a second run of main has deleted the index, written the
\* template and created the index once each, is subscribed, and has indexed a
\* document.
C36_Witness ==
    /\ lcBoot = "subscribed"
    /\ osRun = [exists |-> TRUE, deletes |-> 1, templates |-> 1, creates |-> 1]
    /\ \E m \in MsgIds : lcIndex[m] > 0

\* C40: the stream, once it exists, has the one subject honeypot.logs,
\* work-queue retention, file storage and the max age that the collector and
\* the publisher both ask for.
C40_OneStreamConfig ==
    jsStream # NoStream =>
        /\ jsStream.subjects = {"honeypot.logs"}
        /\ jsStream.retention = "workqueue"
        /\ jsStream.storage = "file"
        /\ jsStream.max_age = CollectorStreamConfig.max_age
        /\ jsStream.max_age = PublisherStreamConfig.max_age

\* Apart from the max age the stream is the same whoever creates it.
C40_SameButMaxAge ==
    jsStream # NoStream =>
        /\ jsStream.name = "honeypot"
        /\ jsStream.subjects = {"honeypot.logs"}
        /\ jsStream.retention = "workqueue"
        /\ jsStream.storage = "file"

(***************************************************************************)
(* Honeypot manager: the work of one create request                        *)
(***************************************************************************)

\* Slot s answers its create request in this step.
CreateAnswered(s) ==
    /\ hpSlot[s].st = "pending" /\ hpSlot[s].verb = "create"
    /\ hpSlot'[s].st = "done"

IsLoad == cfFile' = cfFile /\ <<cfCache, cfResult>>' # <<cfCache, cfResult>>

\* C38: a load_configs that finds the file with a modification time other
\* than the recorded one returns the file's contents, and one that finds the
\* file missing or unreadable returns DEFAULT_CONFIGS.
C38_ReloadOnChange ==
    [][ IsLoad =>
          /\ (cfFile.kind = "file" /\ cfFile.mtime # cfCache.last_modified)
                 => cfResult' = cfFile.contents
          /\ cfFile.kind \in {"missing", "unreadable"}
                 => cfResult' = DEFAULT_CONFIGS ]_vars

\* The same for a modification time later than the recorded one, and for a
\* missing file.
C38_ReloadWhenNewer ==
    [][ IsLoad =>
          /\ (cfFile.kind = "file" /\ cfFile.mtime > cfCache.last_modified)
                 => cfResult' = cfFile.contents
          /\ cfFile.kind = "missing" => cfResult' = DEFAULT_CONFIGS ]_vars

(***************************************************************************)
(* ImageManager: when images are pulled and built                          *)
(***************************************************************************)

\* The ensure call of slot 1 issues invocation op in this step.
Issues(op) ==
    /\ inSlot[1].m = "ensure"
    /\ Len(inSlot'[1].trace) = Len(inSlot[1].trace) + 1
    /\ inSlot'[1].trace[Len(inSlot'[1].trace)][1] = op

\* The target of the invocation issued in this step.
IssuedFor == inSlot'[1].trace[Len(inSlot'[1].trace)][2]

\* ensure_built builds exactly when "podman image exists" failed.
BuildIffAbsent ==
    ( /\ inSlot[1].m = "ensure" /\ inSlot[1].verb = "image_built"
      /\ inSlot'[1].st = "done" ) =>
    ( Issued(inSlot'[1].trace, "build", CollectorImage) # {}
        <=> inSlot'[1].trace[1] = <<"image_exists", CollectorImage, 0>> )

\* C39: a pull is issued only for an image that is not present locally, a
\* build only for a tag no image has, and ensure_built builds whenever it
\* found no image with the tag.
C39_PullBuildOnlyIfAbsent ==
    [][ /\ Issues("pull") => IssuedFor \notin inRes
        /\ Issues("build") => IssuedFor \notin inRes
        /\ BuildIffAbsent ]_vars

\* The part about ensure_built.
C39_BuildOnlyIfAbsent ==
    [][ /\ Issues("build") => IssuedFor \notin inRes
        /\ BuildIffAbsent ]_vars
====
